---- MODULE Spec2Model ----
(***************************************************************************)
(* A model of the market-data fan-out broker:                              *)
(*   - WebSocketServer   (websocket.ts): client sessions, per-client       *)
(*     interest, the interest index, the bulk handlers;                    *)
(*   - TradingViewClient (tradingview.ts): the Multiplexer, its chart map, *)
(*     connect / backoff reconnect / close / fullReconnect;                *)
(*   - main.ts: the wiring of the two (the 'subscribe' / 'unsubscribe'     *)
(*     listeners, the start-up subscriptions from the configuration);      *)
(*   - HealthApiServer (health-api.ts): the manual recovery endpoints.     *)
(*                                                                         *)
(* Strings that the code concatenates and splits (symbol, timeframe, the   *)
(* map key `${symbol}_${timeframe}`) are sequences of characters, so that  *)
(* key.split('_') is computed as the code computes it.                     *)
(*                                                                         *)
(* Node runs every handler to completion: tvClient.subscribe and           *)
(* tvClient.unsubscribe contain no await, so a client request together     *)
(* with the Multiplexer call it emits is one step.  The steps that really  *)
(* interleave are the ones separated by timers (the 1 s pause of a         *)
(* recovery, the 2 s pause of fullReconnect, the backoff timer).           *)
(***************************************************************************)
EXTENDS Integers, Sequences, FiniteSets, TLC

\* ---------------------------------------------------------------- bounds
MaxPairs == 2
MaxTasks == 1
MaxFaults == 1

\* how many bars the driver emits
MaxBars == 2

\* how many times the timer of the health scan fires
MaxTicks == 5

\* how many health scans wait on a timer at the same time
MaxScans == 2

\* how many fullReconnect calls may be between their close and their re-open
\* at once in SpecOverlap
MaxOverlap == 2

\* ------------------------------------------------------ program constants
maxReconnectAttempts == 10

\* the fallback of the retry count in pushBar
DefaultAttempts == 3

\* the health monitor's configuration (DEFAULT_CONFIG)
checkIntervalMs == 60000
staleThresholdMultiplier == 3
maxRecoveryAttempts == 3
fullReconnectThreshold == 3
fullReconnectCooldownMs == 600000

\* a minute, the unit of the numeric timeframes
MinuteMs == 60000

\* ---------------------------------------------------------------- inputs
Clients == {"c1", "c2"}

NoClient == "none"

\* "B" stands for a symbol without '_' (BINANCE:BTCUSDT); "F_X" for one with
\* '_' (FX_IDC:EURUSD).
Symbols == { <<"B">>, <<"F", "_", "X">> }

Timeframes == { <<"1">> }

\* a request field that is absent or empty is falsy in the handlers
Missing == << >>

Sub(symbol, timeframe) == [symbol |-> symbol, timeframe |-> timeframe]

\* config.subscriptions: empty, or one pair
ConfigInputs == { {}, { Sub(<<"B">>, <<"1">>) } }

\* --------------------------------------------------------- string helpers
KeyOf(symbol, timeframe) == symbol \o <<"_">> \o timeframe

SubKey(sub) == KeyOf(sub.symbol, sub.timeframe)

RECURSIVE Split(_)
Split(s) ==
    IF \A i \in 1..Len(s) : s[i] # "_"
    THEN << s >>
    ELSE LET i == CHOOSE j \in 1..Len(s) :
                      s[j] = "_" /\ \A k \in 1..(j - 1) : s[k] # "_"
         IN  << SubSeq(s, 1, i - 1) >> \o Split(SubSeq(s, i + 1, Len(s)))

\* const [symbol, timeframe] = key.split('_')
SplitKey(key) ==
    LET p == Split(key)
    IN  Sub(p[1], p[2])

\* ------------------------------------------------------------- variables
VARIABLES
    proc,                 \* "starting" | "running" | "exited" (the Node process)
    config,               \* config.subscriptions, fixed at start-up
    faults,               \* how many driver calls have failed so far
    clients,              \* WebSocketServer.clients
    activeSubscriptions,  \* WebSocketServer.activeSubscriptions: key -> Subscription
    clientSubscriptions,  \* WebSocketServer.clientSubscriptions: ws -> set of keys
    subscriptionClients,  \* WebSocketServer.subscriptionClients: key -> set of ws
    connected,            \* TradingViewClient.connected
    hasClient,            \* TradingViewClient.client is set
    charts,               \* TradingViewClient.charts: key -> the market of its chart
    driverLive,           \* driver side: market -> charts created and not released
    reconnectAttempts,    \* TradingViewClient.reconnectAttempts
    reconnectPending,     \* TradingViewClient.reconnectTimeout is armed
    tvListeners,          \* the Multiplexer's listeners: event -> the components listening
    tasks,                \* async continuations waiting on a timer
    last,                 \* what the last step did: request, responses, calls, events
    snapshotKeys,         \* the chart keys the last fullReconnect started with
    closing,              \* the clients whose readyState is CLOSING
    endpoint,             \* config.backend.endpoint is set
    emitted,              \* the bars the driver has emitted, in emission order
    delivered,            \* client -> the bar messages sent to it, in order
    pushes,               \* the pushBar call of each emitted bar
    barsPushedTotal,      \* the counter bars_pushed_total
    now,                  \* Date.now()
    healthConfig,         \* the health monitor's configuration from the environment
    lastBarTimestamps,    \* TradingViewHealthMonitor.lastBarTimestamps: key -> ms
    recoveryAttempts,     \* TradingViewHealthMonitor.recoveryAttempts: key -> count
    lastFullReconnectTime, \* TradingViewHealthMonitor.lastFullReconnectTime
    recoveryAttemptsTotal, \* the counter recovery_attempts_total
    scans,                \* the health scans waiting on a timer
    checkTimer,           \* TradingViewHealthMonitor.checkTimer is set
    fullReconnectCalls,   \* history: Date.now() of each scan that called fullReconnect
    recoveriesOf          \* history: key -> the recoveries attemptRecovery has started for it

wsVars == << clients, activeSubscriptions, clientSubscriptions, subscriptionClients >>

tvVars ==
    << connected, hasClient, charts, driverLive, reconnectAttempts, reconnectPending,
       tvListeners >>

barVars == << endpoint, emitted, delivered, pushes, barsPushedTotal >>

\* what only the health monitor's own steps change
scanVars ==
    << now, healthConfig, lastFullReconnectTime, recoveryAttemptsTotal, scans, checkTimer,
       fullReconnectCalls, recoveriesOf >>

healthVars == << lastBarTimestamps, recoveryAttempts, scanVars >>

vars ==
    << proc, config, faults, wsVars, tvVars, tasks, last, snapshotKeys, closing, barVars,
       healthVars >>

\* ------------------------------------------------------ function helpers
Put(f, k, v) == [x \in DOMAIN f \cup {k} |-> IF x = k THEN v ELSE f[x]]

Drop(f, k) == [x \in DOMAIN f \ {k} |-> f[x]]

EmptyMap == [x \in {} |-> {}]

LiveInc(l, m) == IF m \in DOMAIN l THEN [l EXCEPT ![m] = @ + 1] ELSE Put(l, m, 1)

LiveDec(l, m) ==
    IF m \notin DOMAIN l THEN l
    ELSE IF l[m] = 1 THEN Drop(l, m) ELSE [l EXCEPT ![m] = @ - 1]

\* --------------------------------------------------------------- driver
\* What the opaque driver does when called: every call the code wraps in
\* try/catch may throw.  A step is given an oracle: no failure, or the one
\* driver call that fails in it.  "chartThrows": new Session.Chart() throws;
\* "wireThrows": a later wiring step (onError .. setMarket) throws, the chart
\* exists; "deleteThrows": chart.delete() throws and releases nothing;
\* "endThrows": client.end() throws; "connectFails": new Client() throws.
\* A chart is created only for a key without one and deleted only for a key
\* with one, so only those calls are offered a failure.
NoFault == [kind |-> "none", key |-> << >>]

Fault(kind, key) == [kind |-> kind, key |-> key]

Fails(o, kind, key) == o.kind = kind /\ o.key = key

Oracles(createKeys, deleteKeys, session) ==
    {NoFault}
    \cup (IF faults < MaxFaults
          THEN { Fault(k, key) : k \in {"chartThrows", "wireThrows"},
                                  key \in createKeys \ DOMAIN charts }
               \cup { Fault("deleteThrows", key) : key \in deleteKeys \cap DOMAIN charts }
               \cup { Fault(k, << >>) : k \in session }
          ELSE {})

\* --------------------------------------------------- TradingViewClient
\* The Multiplexer's state as one record, so that a handler which makes
\* several calls threads it through them.  mux, drv and ev collect the
\* Multiplexer calls, the driver calls and the events of the current step;
\* seen is what the listeners of its lifecycle events find when they run;
\* threw says that tvClient.subscribe raised to its caller, unhandled that a
\* rejected promise was left without a handler.
Tv ==
    [connected |-> connected, client |-> hasClient, charts |-> charts,
     live |-> driverLive, attempts |-> reconnectAttempts,
     pending |-> reconnectPending,
     mux |-> << >>, drv |-> << >>, ev |-> << >>, seen |-> << >>, threw |-> FALSE,
     unhandled |-> FALSE, nfaults |-> 0]

MuxCall(call, symbol, timeframe, result) ==
    [call |-> call, symbol |-> symbol, timeframe |-> timeframe, result |-> result]

DrvCall(call, market) == [call |-> call, market |-> market]

Event(name, sub) == [name |-> name, sub |-> sub]

NoSub == Sub(Missing, Missing)

\* TradingViewClient.getSubscriptions
GetSubscriptions(t) == { SplitKey(k) : k \in DOMAIN t.charts }

\* this.emit(name, sub) runs the listeners at once: what getSubscriptions()
\* and isConnected() return to a listener, the Multiplexer being in state t
Seen(t, name, sub) ==
    [name |-> name, sub |-> sub, subscriptions |-> GetSubscriptions(t),
     isConnected |-> t.connected]

\* a subscribe that opens a second chart for a key that has one
TvSubscribe_Recreates(t, sub, o) ==
    LET key == SubKey(sub)
    IN
    IF ~t.connected \/ ~t.client
    THEN [t EXCEPT !.mux = Append(@, MuxCall("subscribe", sub.symbol, sub.timeframe, "throws")),
                   !.threw = TRUE]
    ELSE IF Fails(o, "chartThrows", key)
    THEN [t EXCEPT !.nfaults = @ + 1,
                   !.drv = Append(@, DrvCall("ChartThrows", sub)),
                   !.ev = Append(@, Event("subscription_error", sub)),
                   !.mux = Append(@, MuxCall("subscribe", sub.symbol, sub.timeframe, "false"))]
    ELSE IF Fails(o, "wireThrows", key)
    THEN [t EXCEPT !.nfaults = @ + 1,
                   !.live = LiveInc(@, sub),
                   !.drv = Append(@, DrvCall("Chart", sub)),
                   !.ev = Append(@, Event("subscription_error", sub)),
                   !.mux = Append(@, MuxCall("subscribe", sub.symbol, sub.timeframe, "false"))]
    ELSE [t EXCEPT !.charts = Put(@, key, sub),
                   !.live = LiveInc(@, sub),
                   !.drv = Append(@, DrvCall("Chart", sub)),
                   !.ev = Append(@, Event("subscribed", sub)),
                   !.mux = Append(@, MuxCall("subscribe", sub.symbol, sub.timeframe, "true"))]

\* TradingViewClient.subscribe
TvSubscribe(t, sub, o) ==
    LET key == SubKey(sub)
    IN
    IF ~t.connected \/ ~t.client
    THEN [t EXCEPT !.mux = Append(@, MuxCall("subscribe", sub.symbol, sub.timeframe, "throws")),
                   !.threw = TRUE]
    ELSE IF key \in DOMAIN t.charts
    THEN [t EXCEPT !.mux = Append(@, MuxCall("subscribe", sub.symbol, sub.timeframe, "true"))]
    ELSE IF Fails(o, "chartThrows", key)
    THEN [t EXCEPT !.nfaults = @ + 1,
                   !.drv = Append(@, DrvCall("ChartThrows", sub)),
                   !.ev = Append(@, Event("subscription_error", sub)),
                   !.mux = Append(@, MuxCall("subscribe", sub.symbol, sub.timeframe, "false"))]
    ELSE IF Fails(o, "wireThrows", key)
    THEN [t EXCEPT !.nfaults = @ + 1,
                   !.live = LiveInc(@, sub),
                   !.drv = Append(@, DrvCall("Chart", sub)),
                   !.ev = Append(@, Event("subscription_error", sub)),
                   !.mux = Append(@, MuxCall("subscribe", sub.symbol, sub.timeframe, "false"))]
    ELSE LET saved == [t EXCEPT !.charts = Put(@, key, sub),
                                !.live = LiveInc(@, sub),
                                !.drv = Append(@, DrvCall("Chart", sub))]
         IN  [saved EXCEPT !.ev = Append(@, Event("subscribed", sub)),
                           !.seen = Append(@, Seen(saved, "subscribed", sub)),
                           !.mux = Append(@, MuxCall("subscribe", sub.symbol, sub.timeframe,
                                                     "true"))]

\* TradingViewClient.unsubscribe
TvUnsubscribe(t, symbol, timeframe, o) ==
    LET key == KeyOf(symbol, timeframe)
    IN
    IF key \notin DOMAIN t.charts
    THEN [t EXCEPT !.mux = Append(@, MuxCall("unsubscribe", symbol, timeframe, "false"))]
    ELSE IF Fails(o, "deleteThrows", key)
    THEN [t EXCEPT !.nfaults = @ + 1,
                   !.drv = Append(@, DrvCall("deleteThrows", t.charts[key])),
                   !.mux = Append(@, MuxCall("unsubscribe", symbol, timeframe, "false"))]
    ELSE LET removed == [t EXCEPT !.charts = Drop(@, key),
                                  !.live = LiveDec(@, t.charts[key]),
                                  !.drv = Append(@, DrvCall("delete", t.charts[key]))]
         IN  [removed EXCEPT !.ev = Append(@, Event("unsubscribed", Sub(symbol, timeframe))),
                             !.seen = Append(@, Seen(removed, "unsubscribed",
                                                     Sub(symbol, timeframe))),
                             !.mux = Append(@, MuxCall("unsubscribe", symbol, timeframe,
                                                       "true"))]

\* a budget of one attempt more
ScheduleReconnect_OneMore(t) ==
    IF t.attempts + 1 > maxReconnectAttempts + 1
    THEN [t EXCEPT !.attempts = @ + 1, !.pending = FALSE,
                   !.ev = Append(@, Event("max_reconnect_attempts", NoSub))]
    ELSE [t EXCEPT !.attempts = @ + 1, !.pending = TRUE]

\* TradingViewClient.scheduleReconnect
ScheduleReconnect(t) ==
    IF t.attempts + 1 > maxReconnectAttempts
    THEN [t EXCEPT !.attempts = @ + 1, !.pending = FALSE,
                   !.ev = Append(@, Event("max_reconnect_attempts", NoSub))]
    ELSE [t EXCEPT !.attempts = @ + 1, !.pending = TRUE]

\* TradingViewClient.connect
TvConnect(t, o) ==
    IF Fails(o, "connectFails", << >>)
    THEN ScheduleReconnect([t EXCEPT !.nfaults = @ + 1,
                                     !.ev = Append(@, Event("error", NoSub))])
    ELSE LET opened == [t EXCEPT !.client = TRUE, !.connected = TRUE, !.attempts = 0]
         IN  [opened EXCEPT !.ev = Append(@, Event("connect", NoSub)),
                            !.seen = Append(@, Seen(opened, "connect", NoSub))]

\* the loop of close() / resetAllSubscriptions() over charts.entries()
RECURSIVE DeleteAll(_, _, _)
DeleteAll(t, keys, o) ==
    IF keys = {} THEN t
    ELSE LET k == CHOOSE x \in keys : TRUE
             t1 == IF Fails(o, "deleteThrows", k)
                   THEN [t EXCEPT !.nfaults = @ + 1,
                                  !.drv = Append(@, DrvCall("deleteThrows", t.charts[k]))]
                   ELSE [t EXCEPT !.live = LiveDec(@, t.charts[k]),
                                  !.drv = Append(@, DrvCall("delete", t.charts[k]))]
         IN  DeleteAll(t1, keys \ {k}, o)

\* a close that leaves the backoff timer armed
TvClose_KeepsTimer(t, o) ==
    LET t1 == DeleteAll(t, DOMAIN t.charts, o)
        t2 == [t1 EXCEPT !.charts = EmptyMap]
        t3 == IF t2.client /\ t2.connected
              THEN IF Fails(o, "endThrows", << >>)
                   THEN [t2 EXCEPT !.nfaults = @ + 1,
                                   !.drv = Append(@, DrvCall("endThrows", NoSub))]
                   ELSE [t2 EXCEPT !.live = EmptyMap, !.drv = Append(@, DrvCall("end", NoSub))]
              ELSE t2
    IN  [t3 EXCEPT !.connected = FALSE, !.ev = Append(@, Event("disconnect", NoSub))]

\* TradingViewClient.close.  client.end() closes the driver session, and
\* with it every chart the driver still holds.
TvClose(t, o) ==
    LET t1 == DeleteAll(t, DOMAIN t.charts, o)
        t2 == [t1 EXCEPT !.pending = FALSE, !.charts = EmptyMap]
        t3 == IF t2.client /\ t2.connected
              THEN IF Fails(o, "endThrows", << >>)
                   THEN [t2 EXCEPT !.nfaults = @ + 1,
                                   !.drv = Append(@, DrvCall("endThrows", NoSub))]
                   ELSE [t2 EXCEPT !.live = EmptyMap, !.drv = Append(@, DrvCall("end", NoSub))]
              ELSE t2
        closed == [t3 EXCEPT !.connected = FALSE]
    IN  [closed EXCEPT !.ev = Append(@, Event("disconnect", NoSub)),
                       !.seen = Append(@, Seen(closed, "disconnect", NoSub))]

RECURSIVE UnsubscribeEach(_, _, _)
UnsubscribeEach(t, subs, o) ==
    IF subs = {} THEN t
    ELSE LET s == CHOOSE x \in subs : TRUE
         IN  UnsubscribeEach(TvUnsubscribe(t, s.symbol, s.timeframe, o), subs \ {s}, o)

\* a subscribe that raises ends the loop: the exception leaves the caller
RECURSIVE SubscribeEach(_, _, _)
SubscribeEach(t, subs, o) ==
    IF subs = {} \/ t.threw THEN t
    ELSE LET s == CHOOSE x \in subs : TRUE
         IN  SubscribeEach(TvSubscribe(t, s, o), subs \ {s}, o)

\* TradingViewClient.updateSubscriptions
UpdateSubscriptions(t, subscriptions, o) ==
    LET currentSubs == GetSubscriptions(t)
        currentKeys == { SubKey(s) : s \in currentSubs }
        newKeys == { SubKey(s) : s \in subscriptions }
        toRemove == { s \in currentSubs : SubKey(s) \notin newKeys }
        toAdd == { s \in subscriptions : SubKey(s) \notin currentKeys }
    IN  SubscribeEach(UnsubscribeEach(t, toRemove, o), toAdd, o)

\* ------------------------------------------------------------- main.ts
\* wsServer.on('subscribe', async (subscription) => { await tvClient.subscribe(subscription) })
\* The listener is an async function nobody awaits: when subscribe raises,
\* its promise is rejected and unhandled.
OnSubscribe(t, sub, o) ==
    LET t1 == TvSubscribe([t EXCEPT !.threw = FALSE], sub, o)
    IN  [t1 EXCEPT !.unhandled = @ \/ t1.threw, !.threw = FALSE]

\* wsServer.on('unsubscribe', async ({ symbol, timeframe }) => { await tvClient.unsubscribe(...) })
OnUnsubscribe(t, symbol, timeframe, o) == TvUnsubscribe(t, symbol, timeframe, o)

\* ------------------------------------------------------ WebSocketServer
Ws ==
    [clients |-> clients, active |-> activeSubscriptions,
     cs |-> clientSubscriptions, sc |-> subscriptionClients, resp |-> << >>]

World == [ws |-> Ws, tv |-> Tv]

Resp(to, type, success, message, symbol, timeframe) ==
    [to |-> to, type |-> type, success |-> success, message |-> message,
     symbol |-> symbol, timeframe |-> timeframe, subscriptions |-> {}, results |-> << >>]

\* WebSocketServer.sendMessage: only an open socket is written to.
SendMessage(w, r) ==
    IF r.to \in w.ws.clients THEN [w EXCEPT !.ws.resp = Append(@, r)] ELSE w

\* WebSocketServer.getActiveSubscriptions
GetActiveSubscriptions(w) == { w.ws.active[k] : k \in DOMAIN w.ws.active }

\* WebSocketServer.handleConnection
HandleConnection(w, c) ==
    SendMessage([w EXCEPT !.ws.clients = @ \cup {c}, !.ws.cs = Put(@, c, {})],
                Resp(c, "info", TRUE, "Connected to TradingView WebSocket Server",
                     Missing, Missing))

\* handleSubscribe without the test of the session's own interest set: a
\* repeated subscribe takes the shared path again
HandleSubscribe_NoOwnCheck(w, c, symbol, timeframe, o) ==
    LET key == KeyOf(symbol, timeframe)
        clientSubs == IF c \in DOMAIN w.ws.cs THEN w.ws.cs[c] ELSE {}
        isFirst == key \notin DOMAIN w.ws.sc
        listeners == IF isFirst THEN {} ELSE w.ws.sc[key]
        w1 == [w EXCEPT !.ws.cs = Put(@, c, clientSubs \cup {key}),
                        !.ws.sc = Put(@, key, listeners \cup {c})]
        w2 == IF isFirst
              THEN [w1 EXCEPT !.ws.active = Put(@, key, Sub(symbol, timeframe)),
                              !.tv = OnSubscribe(@, Sub(symbol, timeframe), o)]
              ELSE w1
    IN
    IF symbol = Missing \/ timeframe = Missing
    THEN SendMessage(w, Resp(c, "error", FALSE,
                             "Symbol and timeframe are required for subscription",
                             Missing, Missing))
    ELSE SendMessage(w2, Resp(c, "subscribe", TRUE,
                              IF isFirst THEN "Subscription created" ELSE "Subscribed (shared)",
                              symbol, timeframe))

\* WebSocketServer.handleSubscribe
HandleSubscribe(w, c, symbol, timeframe, o) ==
    LET key == KeyOf(symbol, timeframe)
        clientSubs == IF c \in DOMAIN w.ws.cs THEN w.ws.cs[c] ELSE {}
        isFirst == key \notin DOMAIN w.ws.sc
        listeners == IF isFirst THEN {} ELSE w.ws.sc[key]
        w1 == [w EXCEPT !.ws.cs = Put(@, c, clientSubs \cup {key}),
                        !.ws.sc = Put(@, key, listeners \cup {c})]
        w2 == IF isFirst
              THEN [w1 EXCEPT !.ws.active = Put(@, key, Sub(symbol, timeframe)),
                              !.tv = OnSubscribe(@, Sub(symbol, timeframe), o)]
              ELSE w1
    IN
    IF symbol = Missing \/ timeframe = Missing
    THEN SendMessage(w, Resp(c, "error", FALSE,
                             "Symbol and timeframe are required for subscription",
                             Missing, Missing))
    ELSE IF key \in clientSubs
    THEN SendMessage(w, Resp(c, "subscribe", TRUE, "Already subscribed", symbol, timeframe))
    ELSE SendMessage(w2, Resp(c, "subscribe", TRUE,
                              IF isFirst THEN "Subscription created" ELSE "Subscribed (shared)",
                              symbol, timeframe))

\* handleUnsubscribe that looks the key up in the global index instead of
\* the session's own interest set
HandleUnsubscribe_GlobalCheck(w, c, symbol, timeframe, o) ==
    LET key == KeyOf(symbol, timeframe)
        w1 == [w EXCEPT !.ws.cs[c] = @ \ {key}]
        w2 == IF key \in DOMAIN w1.ws.sc
              THEN IF w1.ws.sc[key] \ {c} = {}
                   THEN [w1 EXCEPT !.ws.sc = Drop(@, key),
                                   !.ws.active = Drop(@, key),
                                   !.tv = OnUnsubscribe(@, symbol, timeframe, o)]
                   ELSE [w1 EXCEPT !.ws.sc[key] = @ \ {c}]
              ELSE w1
    IN
    IF symbol = Missing \/ timeframe = Missing
    THEN SendMessage(w, Resp(c, "error", FALSE,
                             "Symbol and timeframe are required for unsubscription",
                             Missing, Missing))
    ELSE IF c \notin DOMAIN w.ws.cs \/ key \notin DOMAIN w.ws.sc
    THEN SendMessage(w, Resp(c, "unsubscribe", FALSE,
                             "Subscription not found for this client", symbol, timeframe))
    ELSE SendMessage(w2, Resp(c, "unsubscribe", TRUE, "Unsubscribed successfully",
                              symbol, timeframe))

\* WebSocketServer.handleUnsubscribe
HandleUnsubscribe(w, c, symbol, timeframe, o) ==
    LET key == KeyOf(symbol, timeframe)
        w1 == [w EXCEPT !.ws.cs[c] = @ \ {key}]
        w2 == IF key \in DOMAIN w1.ws.sc
              THEN IF w1.ws.sc[key] \ {c} = {}
                   THEN [w1 EXCEPT !.ws.sc = Drop(@, key),
                                   !.ws.active = Drop(@, key),
                                   !.tv = OnUnsubscribe(@, symbol, timeframe, o)]
                   ELSE [w1 EXCEPT !.ws.sc[key] = @ \ {c}]
              ELSE w1
    IN
    IF symbol = Missing \/ timeframe = Missing
    THEN SendMessage(w, Resp(c, "error", FALSE,
                             "Symbol and timeframe are required for unsubscription",
                             Missing, Missing))
    ELSE IF c \notin DOMAIN w.ws.cs \/ key \notin w.ws.cs[c]
    THEN SendMessage(w, Resp(c, "unsubscribe", FALSE,
                             "Subscription not found for this client", symbol, timeframe))
    ELSE SendMessage(w2, Resp(c, "unsubscribe", TRUE, "Unsubscribed successfully",
                              symbol, timeframe))

\* WebSocketServer.handleList
HandleList(w, c) ==
    SendMessage(w, [Resp(c, "list", TRUE, "", Missing, Missing)
                        EXCEPT !.subscriptions = GetActiveSubscriptions(w)])

Result(pair, success, message) ==
    [symbol |-> pair.symbol, timeframe |-> pair.timeframe,
     success |-> success, message |-> message]

\* a callback that adds no result for a pair without symbol or timeframe
SubscribeManyPair_DropsInvalid(acc, pair, o) ==
    LET key == KeyOf(pair.symbol, pair.timeframe)
        w == acc.w
    IN
    IF pair.symbol = Missing \/ pair.timeframe = Missing
    THEN acc
    ELSE IF key \in DOMAIN w.ws.active
    THEN [acc EXCEPT !.results = Append(@, Result(pair, TRUE, "Already subscribed"))]
    ELSE [w |-> [w EXCEPT !.ws.active = Put(@, key, Sub(pair.symbol, pair.timeframe)),
                          !.tv = OnSubscribe(@, Sub(pair.symbol, pair.timeframe), o)],
          results |-> Append(acc.results, Result(pair, TRUE, "Subscription created"))]

\* the callback of data.pairs.map(...) in handleSubscribeMany: the world and
\* the results so far, after one more pair
SubscribeManyPair(acc, pair, o) ==
    LET key == KeyOf(pair.symbol, pair.timeframe)
        w == acc.w
    IN
    IF pair.symbol = Missing \/ pair.timeframe = Missing
    THEN [acc EXCEPT !.results = Append(@, Result(pair, FALSE, "symbol and timeframe required"))]
    ELSE IF key \in DOMAIN w.ws.active
    THEN [acc EXCEPT !.results = Append(@, Result(pair, TRUE, "Already subscribed"))]
    ELSE [w |-> [w EXCEPT !.ws.active = Put(@, key, Sub(pair.symbol, pair.timeframe)),
                          !.tv = OnSubscribe(@, Sub(pair.symbol, pair.timeframe), o)],
          results |-> Append(acc.results, Result(pair, TRUE, "Subscription created"))]

\* the callback of data.pairs.map(...) in handleUnsubscribeMany
UnsubscribeManyPair(acc, pair, o) ==
    LET key == KeyOf(pair.symbol, pair.timeframe)
        w == acc.w
    IN
    IF pair.symbol = Missing \/ pair.timeframe = Missing
    THEN [acc EXCEPT !.results = Append(@, Result(pair, FALSE, "symbol and timeframe required"))]
    ELSE IF key \notin DOMAIN w.ws.active
    THEN [acc EXCEPT !.results = Append(@, Result(pair, FALSE, "Subscription not found"))]
    ELSE [w |-> [w EXCEPT !.ws.active = Drop(@, key),
                          !.tv = OnUnsubscribe(@, pair.symbol, pair.timeframe, o)],
          results |-> Append(acc.results, Result(pair, TRUE, "Unsubscribed successfully"))]

RECURSIVE MapPairs(_, _, _, _, _)
MapPairs(acc, pairs, i, subscribing, o) ==
    IF i > Len(pairs) THEN acc
    ELSE MapPairs(IF subscribing
                  THEN SubscribeManyPair(acc, pairs[i], o)
                  ELSE UnsubscribeManyPair(acc, pairs[i], o),
                  pairs, i + 1, subscribing, o)

\* WebSocketServer.handleSubscribeMany
HandleSubscribeMany(w, c, pairs, o) ==
    LET done == MapPairs([w |-> w, results |-> << >>], pairs, 1, TRUE, o)
    IN
    IF Len(pairs) = 0
    THEN SendMessage(w, Resp(c, "error", FALSE, "pairs[] required for subscribe_many",
                             Missing, Missing))
    ELSE SendMessage(done.w,
                     [Resp(c, "subscribe_many", TRUE, "Bulk subscribe processed",
                           Missing, Missing)
                         EXCEPT !.subscriptions = GetActiveSubscriptions(done.w),
                                !.results = done.results])

\* WebSocketServer.handleUnsubscribeMany
HandleUnsubscribeMany(w, c, pairs, o) ==
    LET done == MapPairs([w |-> w, results |-> << >>], pairs, 1, FALSE, o)
    IN
    IF Len(pairs) = 0
    THEN SendMessage(w, Resp(c, "error", FALSE, "pairs[] required for unsubscribe_many",
                             Missing, Missing))
    ELSE SendMessage(done.w,
                     [Resp(c, "unsubscribe_many", TRUE, "Bulk unsubscribe processed",
                           Missing, Missing)
                         EXCEPT !.subscriptions = GetActiveSubscriptions(done.w),
                                !.results = done.results])

\* the body of the loop `for (const key of subs)` in ws.on('close')
RECURSIVE CloseEach(_, _, _, _)
CloseEach(w, c, keys, o) ==
    IF keys = {} THEN w
    ELSE LET key == CHOOSE x \in keys : TRUE
             parts == SplitKey(key)
             w1 == IF key \in DOMAIN w.ws.sc
                   THEN IF w.ws.sc[key] \ {c} = {}
                        THEN [w EXCEPT !.ws.sc = Drop(@, key),
                                       !.ws.active = Drop(@, key),
                                       !.tv = OnUnsubscribe(@, parts.symbol, parts.timeframe, o)]
                        ELSE [w EXCEPT !.ws.sc[key] = @ \ {c}]
                   ELSE w
         IN  CloseEach(w1, c, keys \ {key}, o)

\* ws.on('close') that forgets the session's interest set and leaves the
\* session in the index
HandleClose_KeepsIndex(w, c, o) ==
    LET w1 == [w EXCEPT !.ws.clients = @ \ {c}]
    IN  IF c \in DOMAIN w1.ws.cs
        THEN [w1 EXCEPT !.ws.cs = Drop(@, c)]
        ELSE w1

\* ws.on('close')
HandleClose(w, c, o) ==
    LET w1 == [w EXCEPT !.ws.clients = @ \ {c}]
    IN  IF c \in DOMAIN w1.ws.cs
        THEN [CloseEach(w1, c, w1.ws.cs[c], o) EXCEPT !.ws.cs = Drop(@, c)]
        ELSE w1

\* a catch that only logs: the offending client is told nothing
HandleMalformed_Silent(w, c) == w

\* the catch of ws.on('message'): JSON.parse threw
HandleMalformed(w, c) ==
    SendMessage(w, Resp(c, "error", FALSE, "Invalid JSON message", Missing, Missing))

\* the default case of handleMessage
HandleUnknownAction(w, c) ==
    SendMessage(w, Resp(c, "error", FALSE, "Unknown action", Missing, Missing))

\* ---------------------------------------------------------------- steps
Pair(symbol, timeframe) == [symbol |-> symbol, timeframe |-> timeframe]

\* the (symbol, timeframe) of a request: every valid one, one without a
\* symbol and one without a timeframe
RequestInputs ==
    { Pair(s, t) : s \in Symbols, t \in Timeframes }
    \cup { Pair(Missing, CHOOSE t \in Timeframes : TRUE),
           Pair(CHOOSE s \in Symbols : TRUE, Missing) }

PairInputs ==
    { Pair(s, t) : s \in Symbols, t \in Timeframes }
    \cup { Pair(Missing, CHOOSE t \in Timeframes : TRUE) }

RECURSIVE SeqsUpTo(_, _)
SeqsUpTo(S, n) ==
    IF n = 0 THEN { << >> }
    ELSE LET shorter == SeqsUpTo(S, n - 1)
         IN  shorter \cup { Append(q, x) : q \in { r \in shorter : Len(r) = n - 1 }, x \in S }

PairsInputs == SeqsUpTo(PairInputs, MaxPairs)

PairKeys(pairs) == { KeyOf(pairs[i].symbol, pairs[i].timeframe) : i \in 1..Len(pairs) }

\* a response as `last` keeps it: of the per-pair results, their number and
\* the number of those with success false
Sent(r) ==
    [to |-> r.to, type |-> r.type, success |-> r.success, message |-> r.message,
     symbol |-> r.symbol, timeframe |-> r.timeframe,
     subscriptions |-> r.subscriptions, nresults |-> Len(r.results),
     nfailed |-> Cardinality({ i \in 1..Len(r.results) : ~r.results[i].success })]

\* What a handler leaves in `last` for the turn of the event loop it ran in:
\* the request, the responses written, the Multiplexer calls, the driver
\* calls, the events and what their listeners have seen.
Log(op, c, symbol, timeframe, w) ==
    [op |-> op, ws |-> c, symbol |-> symbol, timeframe |-> timeframe,
     resp |-> [i \in 1..Len(w.ws.resp) |-> Sent(w.ws.resp[i])],
     mux |-> w.tv.mux, drv |-> w.tv.drv, ev |-> w.tv.ev, seen |-> w.tv.seen]

\* no fullReconnect has started yet
NoSnapshot == { << >> }

\* Date.now() when the process starts: later than any cooldown after 0
Epoch == 10 * fullReconnectCooldownMs

\* getHealthMonitorConfig: the fields not given are the ones the environment
\* leaves at their default
HealthConfig(autoRecoveryEnabled, threshold) ==
    [autoRecoveryEnabled |-> autoRecoveryEnabled, fullReconnectThreshold |-> threshold,
     staleThresholdMultiplier |-> staleThresholdMultiplier,
     maxRecoveryAttempts |-> maxRecoveryAttempts,
     fullReconnectCooldownMs |-> fullReconnectCooldownMs]

DefaultHealthConfig == HealthConfig(TRUE, fullReconnectThreshold)

\* between two turns of the event loop
IdleLog ==
    [op |-> "idle", ws |-> NoClient, symbol |-> Missing, timeframe |-> Missing,
     resp |-> << >>, mux |-> << >>, drv |-> << >>, ev |-> << >>, seen |-> << >>]

Running == proc = "running" /\ last = IdleLog

\* ------------------------------------- the health monitor's listeners
\* the events a component listens to on the Multiplexer
MonitorEvents == { "bar", "subscribed", "unsubscribed", "connect", "disconnect" }

MainEvents == { "error", "disconnect", "bar" }

\* the listeners once start() has constructed the monitor and registered its own
Registered ==
    [e \in MonitorEvents \cup MainEvents |->
        (IF e \in MonitorEvents THEN {"health"} ELSE {}) \cup
        (IF e \in MainEvents THEN {"main"} ELSE {})]

\* the component has a listener for the event
Listens(component, e) == e \in DOMAIN tvListeners /\ component \in tvListeners[e]

\* the monitor's maps as one record, threaded through a handler like Tv
Health == [ts |-> lastBarTimestamps, attempts |-> recoveryAttempts]

\* onSubscribed, onUnsubscribed, onConnect and onDisconnect at time `time`
HealthOn(h, e, time) ==
    IF e.name = "subscribed"
    THEN [h EXCEPT !.ts = Put(@, SubKey(e.sub), time)]
    ELSE IF e.name = "unsubscribed"
    THEN [h EXCEPT !.ts = Drop(@, SubKey(e.sub)), !.attempts = Drop(@, SubKey(e.sub))]
    ELSE IF e.name = "connect"
    THEN [h EXCEPT !.ts = [k \in DOMAIN @ |-> time], !.attempts = EmptyMap]
    ELSE h

\* the listeners run for the events ev[i], ev[i+1], ... in order
RECURSIVE HealthEvents(_, _, _, _)
HealthEvents(h, ev, i, time) ==
    IF i > Len(ev) THEN h
    ELSE HealthEvents(IF Listens("health", ev[i].name) THEN HealthOn(h, ev[i], time) ELSE h,
                      ev, i + 1, time)

\* The state after a handler has run to completion, the monitor's maps
\* being h.  An unhandled rejection ends the Node process once the handler
\* has returned.
CommitHealth(w, log, h) ==
    /\ faults + w.tv.nfaults <= MaxFaults
    /\ faults' = faults + w.tv.nfaults
    /\ clients' = w.ws.clients
    /\ activeSubscriptions' = w.ws.active
    /\ clientSubscriptions' = w.ws.cs
    /\ subscriptionClients' = w.ws.sc
    /\ connected' = w.tv.connected
    /\ hasClient' = w.tv.client
    /\ charts' = w.tv.charts
    /\ driverLive' = w.tv.live
    /\ reconnectAttempts' = w.tv.attempts
    /\ reconnectPending' = w.tv.pending
    /\ tvListeners' = tvListeners
    /\ proc' = IF w.tv.unhandled THEN "exited" ELSE "running"
    /\ last' = log
    /\ closing' = closing \cap w.ws.clients
    /\ lastBarTimestamps' = h.ts
    /\ recoveryAttempts' = h.attempts
    /\ UNCHANGED << config, barVars >>

\* ... of a handler outside the health monitor: the monitor's listeners have
\* run for the events the Multiplexer emitted
Commit(w, log) ==
    /\ CommitHealth(w, log, HealthEvents(Health, w.tv.ev, 1, now))
    /\ UNCHANGED scanVars

Init ==
    /\ proc = "starting"
    /\ config \in ConfigInputs
    /\ faults = 0
    /\ clients = {}
    /\ activeSubscriptions = EmptyMap
    /\ clientSubscriptions = EmptyMap
    /\ subscriptionClients = EmptyMap
    /\ connected = FALSE
    /\ hasClient = FALSE
    /\ charts = EmptyMap
    /\ driverLive = EmptyMap
    /\ reconnectAttempts = 0
    /\ reconnectPending = FALSE
    /\ tvListeners = Registered
    /\ tasks = {}
    /\ last = IdleLog
    /\ snapshotKeys = NoSnapshot
    /\ closing = {}
    /\ endpoint = FALSE
    /\ emitted = << >>
    /\ delivered = [c \in Clients |-> << >>]
    /\ pushes = << >>
    /\ barsPushedTotal = 0
    /\ now = Epoch
    /\ healthConfig = DefaultHealthConfig
    /\ lastBarTimestamps = EmptyMap
    /\ recoveryAttempts = EmptyMap
    /\ lastFullReconnectTime = 0
    /\ recoveryAttemptsTotal = 0
    /\ scans = {}
    /\ checkTimer = TRUE
    /\ fullReconnectCalls = << >>
    /\ recoveriesOf = EmptyMap

\* main.ts start(): connect, then the subscriptions of the configuration.
\* A subscribe that raises rejects start(), and start().catch exits.
Start ==
    /\ proc = "starting"
    /\ \E o \in Oracles({ SubKey(s) : s \in config }, {}, {"connectFails"}) :
          LET t1 == TvConnect(Tv, o)
              t2 == IF config # {} THEN UpdateSubscriptions(t1, config, o) ELSE t1
              w == [World EXCEPT !.tv = [t2 EXCEPT !.unhandled = t2.threw]]
          IN  Commit(w, Log("start", NoClient, Missing, Missing, w))
    /\ UNCHANGED << tasks, snapshotKeys >>

\* wss.on('connection')
ClientConnect(c) ==
    /\ Running
    /\ c \notin clients
    /\ LET w == HandleConnection(World, c)
       IN  Commit(w, Log("connection", c, Missing, Missing, w))
    /\ UNCHANGED << tasks, snapshotKeys >>

\* ws.on('message') with action "subscribe"
ClientSubscribe(c, symbol, timeframe) ==
    /\ Running
    /\ c \in clients
    /\ \E o \in Oracles({ KeyOf(symbol, timeframe) }, {}, {}) :
          LET w == HandleSubscribe(World, c, symbol, timeframe, o)
          IN  Commit(w, Log("subscribe", c, symbol, timeframe, w))
    /\ UNCHANGED << tasks, snapshotKeys >>

\* ws.on('message') with action "unsubscribe"
ClientUnsubscribe(c, symbol, timeframe) ==
    /\ Running
    /\ c \in clients
    /\ \E o \in Oracles({}, { KeyOf(symbol, timeframe) }, {}) :
          LET w == HandleUnsubscribe(World, c, symbol, timeframe, o)
          IN  Commit(w, Log("unsubscribe", c, symbol, timeframe, w))
    /\ UNCHANGED << tasks, snapshotKeys >>

\* ws.on('message') with action "list"
ClientList(c) ==
    /\ Running
    /\ c \in clients
    /\ LET w == HandleList(World, c)
       IN  Commit(w, Log("list", c, Missing, Missing, w))
    /\ UNCHANGED << tasks, snapshotKeys >>

\* ws.on('message') with action "subscribe_many"
ClientSubscribeMany(c, pairs) ==
    /\ Running
    /\ c \in clients
    /\ \E o \in Oracles(PairKeys(pairs), {}, {}) :
          LET w == HandleSubscribeMany(World, c, pairs, o)
          IN  Commit(w, Log("subscribe_many", c, Missing, Missing, w))
    /\ UNCHANGED << tasks, snapshotKeys >>

\* ws.on('message') with action "unsubscribe_many"
ClientUnsubscribeMany(c, pairs) ==
    /\ Running
    /\ c \in clients
    /\ \E o \in Oracles({}, PairKeys(pairs), {}) :
          LET w == HandleUnsubscribeMany(World, c, pairs, o)
          IN  Commit(w, Log("unsubscribe_many", c, Missing, Missing, w))
    /\ UNCHANGED << tasks, snapshotKeys >>

\* ws.on('message') with a frame that is not JSON
ClientMalformed(c) ==
    /\ Running
    /\ c \in clients
    /\ LET w == HandleMalformed(World, c)
       IN  Commit(w, Log("malformed", c, Missing, Missing, w))
    /\ UNCHANGED << tasks, snapshotKeys >>

\* ws.on('message') with an action that is none of the five
ClientUnknownAction(c) ==
    /\ Running
    /\ c \in clients
    /\ LET w == HandleUnknownAction(World, c)
       IN  Commit(w, Log("unknown", c, Missing, Missing, w))
    /\ UNCHANGED << tasks, snapshotKeys >>

\* ws.on('close')
ClientClose(c) ==
    /\ Running
    /\ c \in clients
    /\ \E o \in Oracles({}, { SubKey(SplitKey(k)) : k \in clientSubscriptions[c] }, {}) :
          LET w == HandleClose(World, c, o)
          IN  Commit(w, Log("close", c, Missing, Missing, w))
    /\ UNCHANGED << tasks, snapshotKeys >>

\* ------------------------------------------- timers and the health API
Task(type, sub, snapshot) == [type |-> type, sub |-> sub, snapshot |-> snapshot]

\* the timer armed by scheduleReconnect fires: connect(); a failure re-arms it
ReconnectTimer ==
    /\ Running
    /\ reconnectPending
    /\ \E o \in Oracles({}, {}, {"connectFails"}) :
          LET w == [World EXCEPT !.tv = TvConnect([@ EXCEPT !.pending = FALSE], o)]
          IN  Commit(w, Log("reconnect_timer", NoClient, Missing, Missing, w))
    /\ UNCHANGED << tasks, snapshotKeys >>

\* POST /recovery/subscription: tvClient.unsubscribe, then a 1 s timer
RecoveryStart(symbol, timeframe) ==
    /\ Running
    /\ Cardinality(tasks) < MaxTasks
    /\ Task("recovery", Sub(symbol, timeframe), {}) \notin tasks
    /\ \E o \in Oracles({}, { KeyOf(symbol, timeframe) }, {}) :
          LET w == [World EXCEPT !.tv = TvUnsubscribe(@, symbol, timeframe, o)]
          IN  Commit(w, Log("recovery_start", NoClient, symbol, timeframe, w))
    /\ tasks' = tasks \cup { Task("recovery", Sub(symbol, timeframe), {}) }
    /\ UNCHANGED snapshotKeys

\* ... the timer fires: tvClient.subscribe(subscription, 'manual_recovery');
\* an exception is caught by the promise chain's .catch
RecoveryResume(task) ==
    /\ Running
    /\ task \in tasks
    /\ task.type = "recovery"
    /\ \E o \in Oracles({ SubKey(task.sub) }, {}, {}) :
          LET t1 == TvSubscribe(Tv, task.sub, o)
              w == [World EXCEPT !.tv = [t1 EXCEPT !.threw = FALSE]]
          IN  Commit(w, Log("recovery_resume", NoClient, task.sub.symbol, task.sub.timeframe, w))
    /\ tasks' = tasks \ {task}
    /\ UNCHANGED snapshotKeys

\* TradingViewClient.fullReconnect up to its 2 s pause: snapshot and close
FullReconnectStart ==
    /\ Running
    /\ Cardinality(tasks) < MaxTasks
    /\ Task("fullReconnect", NoSub, GetSubscriptions(Tv)) \notin tasks
    /\ \E o \in Oracles({}, DOMAIN charts, {"endThrows"}) :
          LET w == [World EXCEPT !.tv = TvClose(@, o)]
          IN  Commit(w, Log("full_reconnect_start", NoClient, Missing, Missing, w))
    /\ tasks' = tasks \cup { Task("fullReconnect", NoSub, GetSubscriptions(Tv)) }
    /\ snapshotKeys' = DOMAIN charts

\* TradingViewClient.fullReconnect after the pause: connect, then restore
\* the snapshot; an exception is caught and fullReconnect returns false
FullReconnectResume(task) ==
    /\ Running
    /\ task \in tasks
    /\ task.type = "fullReconnect"
    /\ \E o \in Oracles({ SubKey(s) : s \in task.snapshot },
                          { SubKey(s) : s \in GetSubscriptions(Tv) }, {"connectFails"}) :
          LET t1 == TvConnect(Tv, o)
              t2 == IF task.snapshot # {}
                    THEN UpdateSubscriptions(t1, task.snapshot, o)
                    ELSE t1
              t3 == [t2 EXCEPT !.threw = FALSE,
                               !.ev = Append(@, Event(IF t2.threw THEN "fullReconnect_false"
                                                      ELSE "fullReconnect_true", NoSub))]
              w == [World EXCEPT !.tv = t3]
          IN  Commit(w, Log("full_reconnect_resume", NoClient, Missing, Missing, w))
    /\ tasks' = tasks \ {task}
    /\ UNCHANGED snapshotKeys

\* The turn of the event loop is over: the handler has returned, its
\* responses are written, and the loop waits for the next event.
Idle ==
    /\ proc = "running"
    /\ last # IdleLog
    /\ last' = IdleLog
    /\ UNCHANGED << proc, config, faults, wsVars, tvVars, tasks, snapshotKeys, closing, barVars,
                    healthVars >>

Next ==
    \/ Start
    \/ Idle
    \/ \E c \in Clients : ClientConnect(c)
    \/ \E c \in Clients, r \in RequestInputs : ClientSubscribe(c, r.symbol, r.timeframe)
    \/ \E c \in Clients, r \in RequestInputs : ClientUnsubscribe(c, r.symbol, r.timeframe)
    \/ \E c \in Clients : ClientList(c)
    \/ \E c \in Clients, pairs \in PairsInputs : ClientSubscribeMany(c, pairs)
    \/ \E c \in Clients, pairs \in PairsInputs : ClientUnsubscribeMany(c, pairs)
    \/ \E c \in Clients : ClientMalformed(c)
    \/ \E c \in Clients : ClientUnknownAction(c)
    \/ \E c \in Clients : ClientClose(c)
    \/ ReconnectTimer

\* the client front, the Multiplexer behind it and the backoff timer
Spec == Init /\ [][Next]_vars

\* the session that sends the bulk requests in SpecBulkHolder
BulkHolder == "c2"

\* The runs of Spec in which one session sends every bulk request and stays
\* connected.  In them a key that is active without a listener is a key that
\* session has made active by subscribe_many and has not given up since.
NextBulkHolder ==
    \/ Start
    \/ Idle
    \/ \E c \in Clients : ClientConnect(c)
    \/ \E c \in Clients, r \in RequestInputs : ClientSubscribe(c, r.symbol, r.timeframe)
    \/ \E c \in Clients, r \in RequestInputs : ClientUnsubscribe(c, r.symbol, r.timeframe)
    \/ \E c \in Clients : ClientList(c)
    \/ \E pairs \in PairsInputs : ClientSubscribeMany(BulkHolder, pairs)
    \/ \E pairs \in PairsInputs : ClientUnsubscribeMany(BulkHolder, pairs)
    \/ \E c \in Clients : ClientMalformed(c)
    \/ \E c \in Clients : ClientUnknownAction(c)
    \/ \E c \in Clients \ {BulkHolder} : ClientClose(c)
    \/ ReconnectTimer

SpecBulkHolder == Init /\ [][NextBulkHolder]_vars

\* The bulk requests of one session, with the single subscriptions of the
\* sessions beside it.
NextBulk ==
    \/ Start
    \/ Idle
    \/ \E c \in Clients : ClientConnect(c)
    \/ \E c \in Clients, r \in RequestInputs : ClientSubscribe(c, r.symbol, r.timeframe)
    \/ \E pairs \in PairsInputs : ClientSubscribeMany(BulkHolder, pairs)
    \/ \E pairs \in PairsInputs : ClientUnsubscribeMany(BulkHolder, pairs)

SpecBulk == Init /\ [][NextBulk]_vars

NextOps ==
    \/ Next
    \/ \E s \in Symbols, t \in Timeframes : RecoveryStart(s, t)
    \/ \E task \in tasks : RecoveryResume(task)
    \/ FullReconnectStart
    \/ \E task \in tasks : FullReconnectResume(task)

\* ... together with the manual recovery and full reconnect of the health API
SpecOps == Init /\ [][NextOps]_vars

\* ------------------------------------------------- bars and the HTTP push
\* config.retry?.httpRetry?.attempts: the configuration has no retry section
httpRetryAttempts == Missing

\* a retry budget of two calls
MaxAttempts_Two(attempts) == 2

\* const maxAttempts = 1 + attempts || 3, which JavaScript reads as
\* (1 + attempts) || 3: NaN for an undefined attempts, and NaN || 3 is 3
MaxAttempts(attempts) ==
    IF attempts = Missing THEN DefaultAttempts
    ELSE IF 1 + attempts[1] = 0 THEN DefaultAttempts
    ELSE 1 + attempts[1]

maxAttempts == MaxAttempts(httpRetryAttempts)

\* the bar chart.onUpdate builds for the chart of key k
Bar(k, time) == [symbol |-> charts[k].symbol, timeframe |-> charts[k].timeframe, time |-> time]

\* the clients broadcastBar sends to: those with readyState OPEN
OpenClients == clients \ closing

\* the bar listener of main.ts and pushBar, up to its first await
Bars == [delivered |-> delivered, pushes |-> pushes, total |-> barsPushedTotal]

PushCall(state, attempt, posts, outcomes, counted) ==
    [state |-> state, attempt |-> attempt, posts |-> posts, outcomes |-> outcomes,
     counted |-> counted]

\* a broadcast that is skipped while the push of an earlier bar is not finished
BroadcastBar_WaitsForPush(b, bar) ==
    IF \E i \in 1..Len(b.pushes) : b.pushes[i].state \in {"posting", "backoff"}
    THEN b
    ELSE [b EXCEPT !.delivered = [c \in Clients |->
                        IF c \in OpenClients THEN Append(@[c], bar) ELSE @[c]]]

\* WebSocketServer.broadcastBar
BroadcastBar(b, bar) ==
    [b EXCEPT !.delivered = [c \in Clients |->
                  IF c \in OpenClients THEN Append(@[c], bar) ELSE @[c]]]

\* pushBar from its call to its first await: the broadcast, then either the
\* return for want of an endpoint or the first axios.post
PushBar(b, bar) ==
    LET sent == BroadcastBar(b, bar)
    IN  IF ~endpoint
        THEN [sent EXCEPT !.pushes = Append(@, PushCall("returned", 0, 0, << >>, 0))]
        ELSE IF 0 < maxAttempts
        THEN [sent EXCEPT !.pushes = Append(@, PushCall("posting", 0, 1, << >>, 0))]
        ELSE [sent EXCEPT !.pushes = Append(@, PushCall("dropped", 0, 0, << >>, 0))]

\* a pushBar that sends the bar to the clients only once its POST succeeded
PostSettled_ThenBroadcast(b, i, ok) ==
    LET p == b.pushes[i]
    IN  IF ok
        THEN [b EXCEPT !.total = @ + 1,
                       !.delivered = [c \in Clients |->
                           IF c \in OpenClients THEN Append(@[c], emitted[i]) ELSE @[c]],
                       !.pushes[i] = PushCall("done", p.attempt, p.posts,
                                              Append(p.outcomes, TRUE), p.counted + 1)]
        ELSE [b EXCEPT !.pushes[i] =
                  PushCall(IF p.attempt + 1 < maxAttempts THEN "backoff" ELSE "dropped",
                           p.attempt + 1, p.posts, Append(p.outcomes, FALSE), p.counted)]

\* pushBar resumed by the settled axios.post of call i: the try block's
\* barsPushedTotal.inc() and return, or the catch block
PostSettled(b, i, ok) ==
    LET p == b.pushes[i]
    IN  IF ok
        THEN [b EXCEPT !.total = @ + 1,
                       !.pushes[i] = PushCall("done", p.attempt, p.posts,
                                              Append(p.outcomes, TRUE), p.counted + 1)]
        ELSE [b EXCEPT !.pushes[i] =
                  PushCall(IF p.attempt + 1 < maxAttempts THEN "backoff" ELSE "dropped",
                           p.attempt + 1, p.posts, Append(p.outcomes, FALSE), p.counted)]

\* pushBar resumed by the backoff timer: the loop test and the next axios.post
BackoffElapsed(b, i) ==
    LET p == b.pushes[i]
    IN  [b EXCEPT !.pushes[i] =
             IF p.attempt < maxAttempts
             THEN PushCall("posting", p.attempt, p.posts + 1, p.outcomes, p.counted)
             ELSE PushCall("dropped", p.attempt, p.posts, p.outcomes, p.counted)]

CommitBars(b) ==
    /\ delivered' = b.delivered
    /\ pushes' = b.pushes
    /\ barsPushedTotal' = b.total
    /\ UNCHANGED << proc, config, faults, wsVars, tvVars, tasks, last, snapshotKeys, closing,
                    endpoint, scanVars >>

\* a listener that keeps the bar's own time
OnBar_BarTime(h, bar, time) ==
    LET key == KeyOf(bar.symbol, bar.timeframe)
    IN  [h EXCEPT !.ts = Put(@, key, bar.time), !.attempts = Drop(@, key)]

\* TradingViewHealthMonitor.onBar
OnBar(h, bar, time) ==
    LET key == KeyOf(bar.symbol, bar.timeframe)
    IN  [h EXCEPT !.ts = Put(@, key, time), !.attempts = Drop(@, key)]

\* the driver calls the update callback of the chart of key k: the 'bar'
\* listeners run, the health monitor's first
EmitBar(k) ==
    /\ Running
    /\ k \in DOMAIN charts
    /\ Len(emitted) < MaxBars
    /\ LET bar == Bar(k, Len(emitted) + 1)
           h == IF Listens("health", "bar") THEN OnBar(Health, bar, now) ELSE Health
       IN  /\ emitted' = Append(emitted, bar)
           /\ lastBarTimestamps' = h.ts
           /\ recoveryAttempts' = h.attempts
           /\ CommitBars(IF Listens("main", "bar") THEN PushBar(Bars, bar) ELSE Bars)

\* the backend answers the POST of call i, or the POST fails
SinkAnswers(i, ok) ==
    /\ Running
    /\ i \in 1..Len(pushes)
    /\ pushes[i].state = "posting"
    /\ UNCHANGED << emitted, lastBarTimestamps, recoveryAttempts >>
    /\ CommitBars(PostSettled(Bars, i, ok))

\* the timer of `await new Promise(res => setTimeout(res, backoffSec * 1000))`
BackoffTimer(i) ==
    /\ Running
    /\ i \in 1..Len(pushes)
    /\ pushes[i].state = "backoff"
    /\ UNCHANGED << emitted, lastBarTimestamps, recoveryAttempts >>
    /\ CommitBars(BackoffElapsed(Bars, i))

\* a client starts the closing handshake: readyState is CLOSING until 'close'
ClientClosing(c) ==
    /\ Running
    /\ c \in OpenClients
    /\ closing' = closing \cup {c}
    /\ UNCHANGED << proc, config, faults, wsVars, tvVars, tasks, last, snapshotKeys, barVars,
                    healthVars >>

\* the start-up configuration of the bar specification: two keys
BarConfigInputs == { { Sub(<<"B">>, <<"1">>), Sub(<<"F", "_", "X">>, <<"1">>) } }

\* the client of the bar specification
BarClients == { "c1" }

InitBars ==
    /\ proc = "starting"
    /\ config \in BarConfigInputs
    /\ endpoint \in BOOLEAN
    /\ faults = 0
    /\ clients = {}
    /\ activeSubscriptions = EmptyMap
    /\ clientSubscriptions = EmptyMap
    /\ subscriptionClients = EmptyMap
    /\ connected = FALSE
    /\ hasClient = FALSE
    /\ charts = EmptyMap
    /\ driverLive = EmptyMap
    /\ reconnectAttempts = 0
    /\ reconnectPending = FALSE
    /\ tvListeners = Registered
    /\ tasks = {}
    /\ last = IdleLog
    /\ snapshotKeys = NoSnapshot
    /\ closing = {}
    /\ emitted = << >>
    /\ delivered = [c \in Clients |-> << >>]
    /\ pushes = << >>
    /\ barsPushedTotal = 0
    /\ now = Epoch
    /\ healthConfig = DefaultHealthConfig
    /\ lastBarTimestamps = EmptyMap
    /\ recoveryAttempts = EmptyMap
    /\ lastFullReconnectTime = 0
    /\ recoveryAttemptsTotal = 0
    /\ scans = {}
    /\ checkTimer = TRUE
    /\ fullReconnectCalls = << >>
    /\ recoveriesOf = EmptyMap

NextBars ==
    \/ Start
    \/ Idle
    \/ \E c \in BarClients : ClientConnect(c)
    \/ \E c \in BarClients : ClientClosing(c)
    \/ \E c \in BarClients : ClientClose(c)
    \/ \E k \in DOMAIN charts : EmitBar(k)
    \/ \E i \in 1..MaxBars, ok \in BOOLEAN : SinkAnswers(i, ok)
    \/ \E i \in 1..MaxBars : BackoffTimer(i)

\* the service with its start-up subscriptions, clients that come and go,
\* the bars of the driver and the HTTP push of each bar
SpecBars == InitBars /\ [][NextBars]_vars

\* ------------------------------------------- the driver's update frames
\* The driver receives a data frame for the chart of key k: the call of the
\* callback given to chart.onUpdate is queued in the event loop.
UpdateArrives(k) ==
    /\ Running
    /\ k \in DOMAIN charts
    /\ Cardinality(tasks) < MaxTasks
    /\ Task("update", charts[k], {}) \notin tasks
    /\ tasks' = tasks \cup { Task("update", charts[k], {}) }
    /\ UNCHANGED << proc, config, faults, wsVars, tvVars, last, snapshotKeys, closing, barVars,
                    healthVars >>

\* ... and the callback runs.  It is a closure over symbol and timeframe
\* that emits 'bar' without looking at the map; whether the driver still
\* calls it for a chart that has been deleted meanwhile is the driver's
\* choice, and nothing in subscribe or unsubscribe detaches it.
UpdateDispatched(task) ==
    /\ Running
    /\ task \in tasks
    /\ task.type = "update"
    /\ Len(emitted) < MaxBars
    /\ LET bar == [symbol |-> task.sub.symbol, timeframe |-> task.sub.timeframe,
                   time |-> Len(emitted) + 1]
           h == IF Listens("health", "bar") THEN OnBar(Health, bar, now) ELSE Health
           b == IF Listens("main", "bar") THEN PushBar(Bars, bar) ELSE Bars
       IN  /\ emitted' = Append(emitted, bar)
           /\ lastBarTimestamps' = h.ts
           /\ recoveryAttempts' = h.attempts
           /\ delivered' = b.delivered
           /\ pushes' = b.pushes
           /\ barsPushedTotal' = b.total
    /\ tasks' = tasks \ {task}
    /\ UNCHANGED << proc, config, faults, wsVars, tvVars, last, snapshotKeys, closing,
                    endpoint, scanVars >>

NextUpdates ==
    \/ Start
    \/ Idle
    \/ \E c \in BarClients : ClientConnect(c)
    \/ \E c \in BarClients, r \in RequestInputs : ClientSubscribe(c, r.symbol, r.timeframe)
    \/ \E c \in BarClients, r \in RequestInputs : ClientUnsubscribe(c, r.symbol, r.timeframe)
    \/ \E k \in DOMAIN charts : UpdateArrives(k)
    \/ \E task \in tasks : UpdateDispatched(task)

\* the service with a client that subscribes and unsubscribes while the
\* driver delivers update frames
SpecUpdates == Init /\ [][NextUpdates]_vars

\* -------------------------------------------------- the full reconnect
NextReconnect ==
    \/ Start
    \/ Idle
    \/ \E c \in Clients : ClientConnect(c)
    \/ \E c \in Clients, r \in RequestInputs : ClientSubscribe(c, r.symbol, r.timeframe)
    \/ ReconnectTimer
    \/ FullReconnectStart
    \/ \E task \in tasks : FullReconnectResume(task)

\* the service with clients that subscribe, the full reconnect of the
\* Multiplexer and the backoff timer of its connection
SpecReconnect == Init /\ [][NextReconnect]_vars

\* fullReconnect has no guard against a call made while an earlier one is in
\* its 2 s pause (POST /recovery/full-reconnect twice, or the health API and
\* a scan): the calls overlap, and the later re-open finds the charts the
\* earlier one restored and the ones clients have asked for since
FullReconnectOverlap ==
    /\ Running
    /\ Cardinality(tasks) < MaxOverlap
    /\ Task("fullReconnect", NoSub, GetSubscriptions(Tv)) \notin tasks
    /\ \E o \in Oracles({}, DOMAIN charts, {"endThrows"}) :
          LET w == [World EXCEPT !.tv = TvClose(@, o)]
          IN  Commit(w, Log("full_reconnect_start", NoClient, Missing, Missing, w))
    /\ tasks' = tasks \cup { Task("fullReconnect", NoSub, GetSubscriptions(Tv)) }
    /\ snapshotKeys' = DOMAIN charts

NextOverlap ==
    \/ Start
    \/ Idle
    \/ \E c \in Clients : ClientConnect(c)
    \/ \E c \in Clients, r \in RequestInputs : ClientSubscribe(c, r.symbol, r.timeframe)
    \/ FullReconnectOverlap
    \/ \E task \in tasks : FullReconnectResume(task)

\* the service with clients that subscribe and full reconnects that overlap
SpecOverlap == Init /\ [][NextOverlap]_vars

\* ------------------------------------------- the configuration's loading
\* parseInt: the number the leading digits spell, << >> for NaN
DigitValue(ch) ==
    CASE ch = "0" -> 0 [] ch = "1" -> 1 [] ch = "2" -> 2 [] ch = "3" -> 3 [] ch = "4" -> 4
      [] ch = "5" -> 5 [] ch = "6" -> 6 [] ch = "7" -> 7 [] ch = "8" -> 8 [] ch = "9" -> 9

Digits == {"0", "1", "2", "3", "4", "5", "6", "7", "8", "9"}

RECURSIVE ParseDigits(_, _, _)
ParseDigits(str, i, acc) ==
    IF i > Len(str) \/ str[i] \notin Digits THEN acc
    ELSE ParseDigits(str, i + 1, 10 * acc + DigitValue(str[i]))

ParseInt(str) ==
    IF str = << >> \/ str[1] \notin Digits THEN << >> ELSE << ParseDigits(str, 1, 0) >>

\* timeframe.endsWith(ch)
EndsWith(str, ch) == Len(str) > 0 /\ str[Len(str)] = ch

\* timeframe.replace(ch, ''): the first occurrence of ch is removed
ReplaceFirst(str, ch) ==
    IF \A i \in 1..Len(str) : str[i] # ch THEN str
    ELSE LET i == CHOOSE j \in 1..Len(str) :
                      str[j] = ch /\ \A k \in 1..(j - 1) : str[k] # ch
         IN  SubSeq(str, 1, i - 1) \o SubSeq(str, i + 1, Len(str))

DigitChar(d) ==
    CASE d = 0 -> "0" [] d = 1 -> "1" [] d = 2 -> "2" [] d = 3 -> "3" [] d = 4 -> "4"
      [] d = 5 -> "5" [] d = 6 -> "6" [] d = 7 -> "7" [] d = 8 -> "8" [] d = 9 -> "9"

\* Number.prototype.toString of a non-negative integer
RECURSIVE NumberToString(_)
NumberToString(n) ==
    IF n < 10 THEN << DigitChar(n) >>
    ELSE NumberToString(n \div 10) \o << DigitChar(n % 10) >>

\* (parseInt(timeframe) * 60).toString(): "NaN" when no digit leads
HoursToMinutes(timeframe) ==
    IF ParseInt(timeframe) = << >> THEN << "N", "a", "N" >>
    ELSE NumberToString(ParseInt(timeframe)[1] * 60)

\* a normalization that compares the unit letters without regard to case
NormalizeTimeframe_IgnoresCase(sub) ==
    LET timeframe == sub.timeframe
    IN  [sub EXCEPT !.timeframe =
            IF EndsWith(timeframe, "m") \/ EndsWith(timeframe, "M")
            THEN ReplaceFirst(ReplaceFirst(timeframe, "m"), "M")
            ELSE IF EndsWith(timeframe, "h") THEN HoursToMinutes(timeframe)
            ELSE IF timeframe \in { << "1", "d" >>, << "d" >> } THEN << "D" >>
            ELSE IF timeframe \in { << "1", "w" >>, << "w" >> } THEN << "W" >>
            ELSE timeframe]

\* normalizeTimeframe
NormalizeTimeframe(sub) ==
    LET timeframe == sub.timeframe
    IN  [sub EXCEPT !.timeframe =
            IF EndsWith(timeframe, "m") THEN ReplaceFirst(timeframe, "m")
            ELSE IF EndsWith(timeframe, "h") THEN HoursToMinutes(timeframe)
            ELSE IF timeframe \in { << "1", "d" >>, << "d" >> } THEN << "D" >>
            ELSE IF timeframe \in { << "1", "w" >>, << "w" >> } THEN << "W" >>
            ELSE IF timeframe \in { << "1", "M" >>, << "M" >> } THEN << "M" >>
            ELSE timeframe]

\* the timeframes an operator or a client writes
TimeframeInputs ==
    { << "1", "m" >>, << "5", "m" >>, << "1", "h" >>, << "4", "h" >>, << "1", "d" >>, << "d" >>,
      << "1", "w" >>, << "w" >>, << "1", "M" >>, << "M" >>, << "6", "0" >>, << "D" >> }

\* parseSubscriptions(): SUBSCRIPTIONS is not set, or holds one pair
RawConfigInputs == { {} } \cup { { Sub(<< "B" >>, tf) } : tf \in TimeframeInputs }

\* config.ts is evaluated: config.subscriptions = parseSubscriptions().map(normalizeTimeframe)
LoadConfig ==
    /\ proc = "loading"
    /\ proc' = "starting"
    /\ config' = { NormalizeTimeframe(sub) : sub \in config }
    /\ UNCHANGED << faults, wsVars, tvVars, tasks, last, snapshotKeys, closing, barVars,
                    healthVars >>

\* before config.ts is evaluated: `config` holds what parseSubscriptions returns
InitConfig ==
    /\ proc = "loading"
    /\ config \in RawConfigInputs
    /\ faults = 0
    /\ clients = {}
    /\ activeSubscriptions = EmptyMap
    /\ clientSubscriptions = EmptyMap
    /\ subscriptionClients = EmptyMap
    /\ connected = FALSE
    /\ hasClient = FALSE
    /\ charts = EmptyMap
    /\ driverLive = EmptyMap
    /\ reconnectAttempts = 0
    /\ reconnectPending = FALSE
    /\ tvListeners = Registered
    /\ tasks = {}
    /\ last = IdleLog
    /\ snapshotKeys = NoSnapshot
    /\ closing = {}
    /\ endpoint = FALSE
    /\ emitted = << >>
    /\ delivered = [c \in Clients |-> << >>]
    /\ pushes = << >>
    /\ barsPushedTotal = 0
    /\ now = Epoch
    /\ healthConfig = DefaultHealthConfig
    /\ lastBarTimestamps = EmptyMap
    /\ recoveryAttempts = EmptyMap
    /\ lastFullReconnectTime = 0
    /\ recoveryAttemptsTotal = 0
    /\ scans = {}
    /\ checkTimer = TRUE
    /\ fullReconnectCalls = << >>
    /\ recoveriesOf = EmptyMap

NextConfig ==
    \/ LoadConfig
    \/ Start
    \/ Idle
    \/ \E c \in Clients : ClientConnect(c)
    \/ \E c \in Clients : ClientList(c)

\* the loading of the configuration, the start-up subscriptions and clients
\* that list them
SpecConfig == InitConfig /\ [][NextConfig]_vars

\* the timeframes of the requests in SpecNormalize: a written form and its
\* normal form
RequestTimeframes == { << "5", "m" >>, << "5" >> }

NextNormalize ==
    \/ LoadConfig
    \/ Start
    \/ Idle
    \/ \E c \in Clients : ClientConnect(c)
    \/ \E c \in Clients, tf \in RequestTimeframes : ClientSubscribe(c, << "B" >>, tf)
    \/ \E c \in Clients, tf \in RequestTimeframes : ClientUnsubscribe(c, << "B" >>, tf)

\* ... and clients that subscribe with a timeframe in either form
SpecNormalize == InitConfig /\ [][NextNormalize]_vars

\* ------------------------------------------------- the driver's outage
\* new TradingViewAPI.Client() while the service cannot be reached: it
\* throws, or it succeeds when the outage is over
OutageOracles == { NoFault, Fault("connectFails", << >>) }

\* the timer armed by scheduleReconnect fires during an outage: the failures
\* of connect() are as many as the outage lasts
ReconnectTimerOutage ==
    /\ Running
    /\ reconnectPending
    /\ \E o \in OutageOracles :
          LET t1 == TvConnect([Tv EXCEPT !.pending = FALSE], o)
              w == [World EXCEPT !.tv = [t1 EXCEPT !.nfaults = 0]]
          IN  Commit(w, Log("reconnect_timer", NoClient, Missing, Missing, w))
    /\ UNCHANGED << tasks, snapshotKeys >>

NextBackoff ==
    \/ Start
    \/ Idle
    \/ \E c \in Clients : ClientConnect(c)
    \/ \E c \in Clients, r \in RequestInputs : ClientSubscribe(c, r.symbol, r.timeframe)
    \/ ReconnectTimerOutage
    \/ FullReconnectStart
    \/ \E task \in tasks : FullReconnectResume(task)

\* the service with clients that subscribe, the full reconnect of the
\* Multiplexer, and a backoff timer whose connect() fails any number of times
SpecBackoff == Init /\ [][NextBackoff]_vars

\* ------------------------------------------------- the health monitor
\* timeframeToMs, << >> for NaN
TimeframeToMs(timeframe) ==
    IF timeframe = << "D" >> THEN << 24 * 60 * MinuteMs >>
    ELSE IF timeframe = << "W" >> THEN << 7 * 24 * 60 * MinuteMs >>
    ELSE IF timeframe = << "M" >> THEN << 30 * 24 * 60 * MinuteMs >>
    ELSE IF ParseInt(timeframe) = << >> THEN << >>
    ELSE << ParseInt(timeframe)[1] * MinuteMs >>

\* timeSinceLastBar > staleThresholdMs: false when the threshold is NaN
IsStale(sub, lastTimestamp, time) ==
    LET expectedIntervalMs == TimeframeToMs(sub.timeframe)
    IN  /\ expectedIntervalMs # << >>
        /\ time - lastTimestamp > expectedIntervalMs[1] * healthConfig.staleThresholdMultiplier

\* the health monitor's handler state: the Multiplexer, the monitor's maps,
\* the counter, and whether the handler has stopped at an await
HealthWorld ==
    [tv |-> Tv, h |-> Health, total |-> recoveryAttemptsTotal,
     lastFull |-> lastFullReconnectTime, paused |-> FALSE,
     calls |-> fullReconnectCalls, recoveries |-> recoveriesOf]

\* a Multiplexer call made by the monitor: the monitor's listeners see its events
Observed(hw, t, time) ==
    [hw EXCEPT !.tv = t, !.h = HealthEvents(hw.h, t.ev, Len(hw.tv.ev) + 1, time)]

Emitted(hw, name, sub) == [hw EXCEPT !.tv.ev = Append(@, Event(name, sub))]

\* the value the last Multiplexer call returned
Returned(t) == t.mux[Len(t.mux)].result

\* attemptRecovery up to its 1 s pause
AttemptRecoveryStart(hw, sub, o, time) ==
    LET key == SubKey(sub)
        attempts == IF key \in DOMAIN hw.h.attempts THEN hw.h.attempts[key] ELSE 0
        started == IF key \in DOMAIN hw.recoveries THEN hw.recoveries[key] ELSE 0
    IN  IF attempts >= healthConfig.maxRecoveryAttempts
        THEN Emitted(hw, "max_recovery_attempts", sub)
        ELSE LET counted == [hw EXCEPT !.h.attempts = Put(@, key, attempts + 1),
                                       !.total = @ + 1,
                                       !.recoveries = Put(@, key, started + 1),
                                       !.paused = TRUE]
             IN  Observed(counted,
                          TvUnsubscribe(counted.tv, sub.symbol, sub.timeframe, o), time)

\* attemptRecovery after the pause: the resubscription and its outcome
AttemptRecoveryResume(hw, sub, o, time) ==
    LET subscribed == Observed(hw, TvSubscribe(hw.tv, sub, o), time)
    IN  IF subscribed.tv.threw
        THEN Emitted([subscribed EXCEPT !.tv.threw = FALSE], "recovery_error", sub)
        ELSE IF Returned(subscribed.tv) = "true"
        THEN Emitted([subscribed EXCEPT !.h.ts = Put(@, SubKey(sub), time)],
                     "recovery_success", sub)
        ELSE Emitted(subscribed, "recovery_failure", sub)

\* a scan that has stopped at an await: in the recovery of `sub`, with the
\* stale subscriptions `rest` still to recover, or in a full reconnect with
\* `snapshot`; `started` is the scan's `now`
Scan(kind, sub, rest, snapshot, started) ==
    [kind |-> kind, sub |-> sub, rest |-> rest, snapshot |-> snapshot, started |-> started]

NoScan == Scan("none", NoSub, << >>, {}, 0)

\* the loop `for (const sub of staleSubscriptions) await this.attemptRecovery(sub)`
\* from `rest` on, up to the next pause or the end of the scan
RECURSIVE RunRecoveries(_, _, _, _, _)
RunRecoveries(hw, rest, o, time, started) ==
    IF rest = << >>
    THEN [hw |-> Emitted(hw, "stale_subscriptions", NoSub), scan |-> NoScan]
    ELSE LET r == AttemptRecoveryStart(hw, Head(rest), o, time)
         IN  IF r.paused
             THEN [hw |-> r, scan |-> Scan("recovery", Head(rest), Tail(rest), {}, started)]
             ELSE RunRecoveries(r, Tail(rest), o, time, started)

\* the first loop of checkSubscriptionHealth: a key without a timestamp gets one
RECURSIVE InitTimestamps(_, _, _)
InitTimestamps(ts, subs, time) ==
    IF subs = {} THEN ts
    ELSE LET sub == CHOOSE x \in subs : TRUE
             key == SubKey(sub)
         IN  InitTimestamps(IF key \notin DOMAIN ts \/ ts[key] = 0
                            THEN Put(ts, key, time) ELSE ts,
                            subs \ {sub}, time)

\* ... and the subscriptions it finds stale
StaleSubscriptions(ts, subs, time) ==
    { sub \in subs : /\ SubKey(sub) \in DOMAIN ts
                     /\ ts[SubKey(sub)] # 0
                     /\ IsStale(sub, ts[SubKey(sub)], time) }

\* the orders in which a loop can visit the elements of a set
Orders(S) ==
    { seq \in [1..Cardinality(S) -> S] : \A i, j \in 1..Cardinality(S) : seq[i] = seq[j] => i = j }

\* performFullReconnect up to the 2 s pause of fullReconnect: snapshot and close
FullReconnectBegin(hw, o, time, started) ==
    [hw |-> [Observed(hw, TvClose(hw.tv, o), time) EXCEPT !.paused = TRUE,
                                                          !.calls = Append(@, started)],
     scan |-> Scan("full", NoSub, << >>, GetSubscriptions(hw.tv), started)]

\* a scan that recovers its first stale subscription and reconnects as well
CheckSubscriptionHealth_Both(hw, order, o, time) ==
    LET subscriptions == GetSubscriptions(hw.tv)
        stale == StaleSubscriptions(hw.h.ts, subscriptions, time)
        checked == [hw EXCEPT !.h.ts = InitTimestamps(@, subscriptions, time)]
        shouldFullReconnect ==
            /\ healthConfig.autoRecoveryEnabled
            /\ Cardinality(stale) >= healthConfig.fullReconnectThreshold
            /\ time - hw.lastFull > healthConfig.fullReconnectCooldownMs
    IN  IF subscriptions = {} \/ stale = {}
        THEN [hw |-> checked, scan |-> NoScan]
        ELSE IF shouldFullReconnect
        THEN FullReconnectBegin(AttemptRecoveryStart(checked, order[1], o, time), o, time, time)
        ELSE IF healthConfig.autoRecoveryEnabled
        THEN RunRecoveries(checked, order, o, time, time)
        ELSE [hw |-> Emitted(checked, "stale_subscriptions", NoSub), scan |-> NoScan]

\* a scan that recovers stale subscriptions whatever the master switch says
CheckSubscriptionHealth_NoSwitch(hw, order, o, time) ==
    LET subscriptions == GetSubscriptions(hw.tv)
        stale == StaleSubscriptions(hw.h.ts, subscriptions, time)
        checked == [hw EXCEPT !.h.ts = InitTimestamps(@, subscriptions, time)]
        shouldFullReconnect ==
            /\ healthConfig.autoRecoveryEnabled
            /\ Cardinality(stale) >= healthConfig.fullReconnectThreshold
            /\ time - hw.lastFull > healthConfig.fullReconnectCooldownMs
    IN  IF subscriptions = {} \/ stale = {}
        THEN [hw |-> checked, scan |-> NoScan]
        ELSE IF shouldFullReconnect
        THEN FullReconnectBegin(checked, o, time, time)
        ELSE RunRecoveries(checked, order, o, time, time)

\* checkSubscriptionHealth up to its first pause; `order` is the order of
\* the stale subscriptions in the Multiplexer's map
CheckSubscriptionHealth(hw, order, o, time) ==
    LET subscriptions == GetSubscriptions(hw.tv)
        stale == StaleSubscriptions(hw.h.ts, subscriptions, time)
        checked == [hw EXCEPT !.h.ts = InitTimestamps(@, subscriptions, time)]
        shouldFullReconnect ==
            /\ healthConfig.autoRecoveryEnabled
            /\ Cardinality(stale) >= healthConfig.fullReconnectThreshold
            /\ time - hw.lastFull > healthConfig.fullReconnectCooldownMs
    IN  IF subscriptions = {} \/ stale = {}
        THEN [hw |-> checked, scan |-> NoScan]
        ELSE IF shouldFullReconnect
        THEN FullReconnectBegin(checked, o, time, time)
        ELSE IF healthConfig.autoRecoveryEnabled
        THEN RunRecoveries(checked, order, o, time, time)
        ELSE [hw |-> Emitted(checked, "stale_subscriptions", NoSub), scan |-> NoScan]

\* a scan that does not record when it called fullReconnect
FullReconnectEnd_KeepsTime(hw, scan, o, time) ==
    LET t1 == TvConnect(hw.tv, o)
        reopened == Observed(hw, t1, time)
        t2 == IF scan.snapshot # {}
              THEN UpdateSubscriptions(reopened.tv, scan.snapshot, o)
              ELSE reopened.tv
        restored == Observed(reopened, t2, time)
        done == IF restored.tv.threw
                THEN Emitted([restored EXCEPT !.tv.threw = FALSE], "full_reconnect_failure", NoSub)
                ELSE Emitted([restored EXCEPT !.h.ts = [k \in DOMAIN @ |-> time],
                                              !.h.attempts = EmptyMap],
                             "full_reconnect_success", NoSub)
    IN  Emitted(done, "stale_subscriptions", NoSub)

\* performFullReconnect after the pause: connect, restore the snapshot, and
\* on success reset the monitor's maps; then the scan's own last lines
FullReconnectEnd(hw, scan, o, time) ==
    LET t1 == TvConnect(hw.tv, o)
        reopened == Observed(hw, t1, time)
        t2 == IF scan.snapshot # {}
              THEN UpdateSubscriptions(reopened.tv, scan.snapshot, o)
              ELSE reopened.tv
        restored == Observed(reopened, t2, time)
        done == IF restored.tv.threw
                THEN Emitted([restored EXCEPT !.tv.threw = FALSE], "full_reconnect_failure", NoSub)
                ELSE Emitted([restored EXCEPT !.h.ts = [k \in DOMAIN @ |-> time],
                                              !.h.attempts = EmptyMap],
                             "full_reconnect_success", NoSub)
    IN  Emitted([done EXCEPT !.lastFull = scan.started], "stale_subscriptions", NoSub)

\* the state after a step of the health monitor
CommitScan(r, op, sub) ==
    /\ CommitHealth([World EXCEPT !.tv = r.hw.tv],
                    Log(op, NoClient, sub.symbol, sub.timeframe, [World EXCEPT !.tv = r.hw.tv]),
                    r.hw.h)
    /\ recoveryAttemptsTotal' = r.hw.total
    /\ lastFullReconnectTime' = r.hw.lastFull
    /\ fullReconnectCalls' = r.hw.calls
    /\ recoveriesOf' = r.hw.recoveries
    /\ UNCHANGED << healthConfig, tasks, checkTimer >>

\* the timer of setInterval fires: one check interval has passed
HealthTick ==
    /\ Running
    /\ checkTimer
    /\ now < Epoch + MaxTicks * checkIntervalMs
    /\ Cardinality(scans) < MaxScans
    /\ LET time == now + checkIntervalMs
           stale == StaleSubscriptions(lastBarTimestamps, GetSubscriptions(Tv), time)
       IN  \E order \in Orders(stale) :
           \E o \in Oracles({}, { SubKey(sub) : sub \in stale } \cup DOMAIN charts, {"endThrows"}) :
              LET r == CheckSubscriptionHealth(HealthWorld, order, o, time)
              IN  /\ now' = time
                  /\ CommitScan(r, "health_scan", NoSub)
                  /\ scans' = IF r.scan = NoScan THEN scans ELSE scans \cup {r.scan}
                  /\ snapshotKeys' = IF r.scan.kind = "full" THEN DOMAIN charts ELSE snapshotKeys

\* the 1 s timer of a recovery fires: the resubscription, then the rest of
\* the scan's loop
ScanRecoveryResume(scan) ==
    /\ Running
    /\ scan \in scans
    /\ scan.kind = "recovery"
    /\ \E o \in Oracles({ SubKey(scan.sub) },
                          { SubKey(scan.rest[i]) : i \in 1..Len(scan.rest) }, {}) :
          LET resumed == AttemptRecoveryResume(HealthWorld, scan.sub, o, now)
              r == RunRecoveries([resumed EXCEPT !.paused = FALSE], scan.rest, o, now,
                                 scan.started)
          IN  /\ CommitScan(r, "health_recovery", scan.sub)
              /\ scans' = (scans \ {scan}) \cup (IF r.scan = NoScan THEN {} ELSE {r.scan})
    /\ UNCHANGED << now, snapshotKeys >>

\* the 2 s timer of fullReconnect fires
ScanFullReconnectResume(scan) ==
    /\ Running
    /\ scan \in scans
    /\ scan.kind = "full"
    /\ \E o \in Oracles({ SubKey(sub) : sub \in scan.snapshot },
                          { SubKey(sub) : sub \in GetSubscriptions(Tv) }, {"connectFails"}) :
          LET r == [hw |-> FullReconnectEnd(HealthWorld, scan, o, now), scan |-> NoScan]
          IN  CommitScan(r, "health_full_reconnect", NoSub)
    /\ scans' = scans \ {scan}
    /\ UNCHANGED << now, snapshotKeys >>

\* the start-up subscriptions of the health specification: three keys
HealthSubscriptions ==
    { { Sub(<<"B">>, <<"1">>), Sub(<<"E">>, <<"1">>), Sub(<<"F", "_", "X">>, <<"1">>) } }

\* the monitor's configurations: the default, a lower full reconnect
\* threshold, and auto-recovery switched off
HealthConfigInputs ==
    { DefaultHealthConfig, HealthConfig(TRUE, fullReconnectThreshold - 1),
      HealthConfig(FALSE, fullReconnectThreshold) }

InitHealth ==
    /\ proc = "starting"
    /\ config \in HealthSubscriptions
    /\ healthConfig \in HealthConfigInputs
    /\ faults = 0
    /\ clients = {}
    /\ activeSubscriptions = EmptyMap
    /\ clientSubscriptions = EmptyMap
    /\ subscriptionClients = EmptyMap
    /\ connected = FALSE
    /\ hasClient = FALSE
    /\ charts = EmptyMap
    /\ driverLive = EmptyMap
    /\ reconnectAttempts = 0
    /\ reconnectPending = FALSE
    /\ tvListeners = Registered
    /\ tasks = {}
    /\ last = IdleLog
    /\ snapshotKeys = NoSnapshot
    /\ closing = {}
    /\ endpoint = FALSE
    /\ emitted = << >>
    /\ delivered = [c \in Clients |-> << >>]
    /\ pushes = << >>
    /\ barsPushedTotal = 0
    /\ now = Epoch
    /\ lastBarTimestamps = EmptyMap
    /\ recoveryAttempts = EmptyMap
    /\ lastFullReconnectTime = 0
    /\ recoveryAttemptsTotal = 0
    /\ scans = {}
    /\ checkTimer = TRUE
    /\ fullReconnectCalls = << >>
    /\ recoveriesOf = EmptyMap

NextHealth ==
    \/ Start
    \/ Idle
    \/ ReconnectTimer
    \/ \E k \in DOMAIN charts : EmitBar(k)
    \/ HealthTick
    \/ \E scan \in scans : ScanRecoveryResume(scan)
    \/ \E scan \in scans : ScanFullReconnectResume(scan)

\* the service with its start-up subscriptions, the bars of the driver and
\* the health monitor's periodic scan
SpecHealth == InitHealth /\ [][NextHealth]_vars

\* a configuration from the environment: HEALTH_STALE_THRESHOLD_MULTIPLIER=1
\* with the given threshold, cooldown and recovery limit
RecoveryConfig(threshold, cooldown, attempts) ==
    [HealthConfig(TRUE, threshold) EXCEPT !.staleThresholdMultiplier = 1,
                                          !.fullReconnectCooldownMs = cooldown,
                                          !.maxRecoveryAttempts = attempts]

\* a full reconnect for one stale key and a cooldown of one scan interval,
\* and for two stale keys and a cooldown of two
RecoveryConfigInputs ==
    { RecoveryConfig(1, checkIntervalMs, maxRecoveryAttempts),
      RecoveryConfig(2, 2 * checkIntervalMs, maxRecoveryAttempts) }

\* no full reconnect for two keys, and a recovery limit of one or of two
AttemptsConfigInputs ==
    { RecoveryConfig(fullReconnectThreshold, fullReconnectCooldownMs, 1),
      RecoveryConfig(fullReconnectThreshold, fullReconnectCooldownMs, 2) }

\* the start-up subscriptions of the recovery specification: two keys
RecoverySubscriptions == { { Sub(<<"B">>, <<"1">>), Sub(<<"E">>, <<"1">>) } }

\* the state after construction, for start-up subscriptions and a health
\* configuration drawn from the given sets
InitMonitor(subscriptions, configs) ==
    /\ proc = "starting"
    /\ config \in subscriptions
    /\ healthConfig \in configs
    /\ faults = 0
    /\ clients = {}
    /\ activeSubscriptions = EmptyMap
    /\ clientSubscriptions = EmptyMap
    /\ subscriptionClients = EmptyMap
    /\ connected = FALSE
    /\ hasClient = FALSE
    /\ charts = EmptyMap
    /\ driverLive = EmptyMap
    /\ reconnectAttempts = 0
    /\ reconnectPending = FALSE
    /\ tvListeners = Registered
    /\ tasks = {}
    /\ last = IdleLog
    /\ snapshotKeys = NoSnapshot
    /\ closing = {}
    /\ endpoint = FALSE
    /\ emitted = << >>
    /\ delivered = [c \in Clients |-> << >>]
    /\ pushes = << >>
    /\ barsPushedTotal = 0
    /\ now = Epoch
    /\ lastBarTimestamps = EmptyMap
    /\ recoveryAttempts = EmptyMap
    /\ lastFullReconnectTime = 0
    /\ recoveryAttemptsTotal = 0
    /\ scans = {}
    /\ checkTimer = TRUE
    /\ fullReconnectCalls = << >>
    /\ recoveriesOf = EmptyMap

InitRecovery == InitMonitor(RecoverySubscriptions, RecoveryConfigInputs)

\* the health monitor with a stale threshold of one timeframe interval, so
\* that a key is stale again two scans after its timestamp was reset
SpecRecovery == InitRecovery /\ [][NextHealth]_vars

\* the timer of setInterval fires: the step of HealthTick, which alone
\* advances the clock
ScanTimer ==
    /\ Running
    /\ checkTimer
    /\ now < Epoch + MaxTicks * checkIntervalMs
    /\ Cardinality(scans) < MaxScans
    /\ now' = now + checkIntervalMs

\* The scheduling of the event loop: a handler's turn ends, the backoff
\* timer fires when it is armed and the scan's interval timer keeps firing.
\* The driver fails at most MaxFaults times, so it becomes connectable again.
SpecRecoveryFair ==
    /\ SpecRecovery
    /\ WF_vars(Idle)
    /\ WF_vars(ReconnectTimer)
    /\ WF_now(ScanTimer)

InitAttempts == InitMonitor(RecoverySubscriptions, AttemptsConfigInputs)

\* the timer of setInterval fires after the timers of the scan before it:
\* the 1 s pauses of a scan's recoveries end within the check interval
HealthTickAlone ==
    /\ scans = {}
    /\ HealthTick

NextAttempts ==
    \/ Start
    \/ Idle
    \/ \E k \in DOMAIN charts : EmitBar(k)
    \/ HealthTickAlone
    \/ \E scan \in scans : ScanRecoveryResume(scan)

\* ... with configurations under which every stale key is recovered on its
\* own and no scan reconnects
SpecAttempts == InitAttempts /\ [][NextAttempts]_vars

\* HEALTH_AUTO_RECOVERY_ENABLED=false, with the default full reconnect
\* threshold and with one that two stale keys reach
InitSwitchedOff ==
    InitMonitor(HealthSubscriptions, { HealthConfig(FALSE, fullReconnectThreshold),
                                       HealthConfig(FALSE, fullReconnectThreshold - 1) })

\* no scan waits on a timer when the monitor only observes
NextSwitchedOff ==
    \/ Start
    \/ Idle
    \/ \E k \in DOMAIN charts : EmitBar(k)
    \/ HealthTick

\* the health monitor with auto-recovery switched off
SpecSwitchedOff == InitSwitchedOff /\ [][NextSwitchedOff]_vars

\* TradingViewHealthMonitor.stop: clearInterval, then removeAllListeners for
\* each of the five events, which removes every listener of the event
Stop ==
    /\ Running
    /\ checkTimer' = FALSE
    /\ tvListeners' = [e \in DOMAIN tvListeners |->
                          IF e \in MonitorEvents THEN {} ELSE tvListeners[e]]
    /\ UNCHANGED << proc, config, faults, wsVars, connected, hasClient, charts, driverLive,
                    reconnectAttempts, reconnectPending, tasks, last, snapshotKeys, closing,
                    barVars, lastBarTimestamps, recoveryAttempts, now, healthConfig,
                    lastFullReconnectTime, recoveryAttemptsTotal, scans, fullReconnectCalls,
                    recoveriesOf >>

NextStop ==
    \/ Start
    \/ Idle
    \/ \E c \in BarClients : ClientConnect(c)
    \/ \E k \in DOMAIN charts : EmitBar(k)
    \/ HealthTick
    \/ Stop

\* the service with a client, the driver's bars and a monitor that is
\* stopped while the process keeps running
SpecStop == InitSwitchedOff /\ [][NextStop]_vars

\* no start-up subscriptions: every chart is there for a client's interest
InitSettle == InitMonitor({ {} }, AttemptsConfigInputs)

NextSettle ==
    \/ Start
    \/ Idle
    \/ \E c \in BarClients : ClientConnect(c)
    \/ \E c \in BarClients, r \in RequestInputs : ClientSubscribe(c, r.symbol, r.timeframe)
    \/ \E c \in BarClients, r \in RequestInputs : ClientUnsubscribe(c, r.symbol, r.timeframe)
    \/ \E c \in BarClients : ClientClose(c)
    \/ HealthTickAlone
    \/ \E scan \in scans : ScanRecoveryResume(scan)

\* a client that subscribes, unsubscribes and disconnects while the monitor
\* recovers its stale keys one by one
SpecSettle == InitSettle /\ [][NextSettle]_vars

\* ---------------------------------------------------------------- claims
\* the keys of the well-formed requests
RequestKeys == { KeyOf(s, t) : s \in Symbols, t \in Timeframes }

\* subscriptionClients.get(key), empty when the key has no entry
Listeners(k) == IF k \in DOMAIN subscriptionClients THEN subscriptionClients[k] ELSE {}

\* clientSubscriptions.get(ws), empty when the session has no entry
Interest(c) == IF c \in DOMAIN clientSubscriptions THEN clientSubscriptions[c] ELSE {}

\* the keys main.ts subscribes at start-up
PinnedKeys == { SubKey(s) : s \in config }

\* no handler is running, no continuation and no reconnect timer is pending
Quiescent == proc = "running" /\ last = IdleLog /\ tasks = {} /\ ~reconnectPending

\* how many driver calls `call` the step made for the chart of key k
CountCalls(calls, call, k) ==
    Cardinality({ i \in 1..Len(calls) : calls[i].call = call /\ SubKey(calls[i].market) = k })

\* how many events `name` the step emitted for key k
CountEvents(events, name, k) ==
    Cardinality({ i \in 1..Len(events) : events[i].name = name /\ SubKey(events[i].sub) = k })

\* the requests a client sends
ClientOps ==
    {"connection", "subscribe", "unsubscribe", "list", "subscribe_many",
     "unsubscribe_many", "malformed", "unknown", "close"}

\* C1 (I1): at every quiescent state a chart exists in the Multiplexer for
\* key K if and only if some client session has K in its interest set or K
\* was pinned by the start-up configuration.  Stated for the runs in which
\* the Multiplexer is connected and no driver call has failed.
C1_ChartIffInterestOrPinned ==
    (Quiescent /\ connected /\ faults = 0) =>
        \A k \in RequestKeys \cup DOMAIN charts :
            k \in DOMAIN charts <=>
                ((\E c \in clients : k \in Interest(c)) \/ k \in PinnedKeys)

\* C2 (P1): against a connected driver that never fails and with no key
\* pinned, every client operation calls Session.Chart() for K once if it
\* takes the listener count of K from 0 to 1 and not at all otherwise, calls
\* chart.delete() for K once if it takes the count from N to 0 and not at
\* all otherwise, and leaves as live charts exactly the keys with a listener.
\* (The counts of calls and of transitions are equal after every operation
\* if and only if every operation adds the same number to both.)
C2_RefcountLifecycle ==
    [][ (last = IdleLog /\ last'.op \in ClientOps
         /\ config = {} /\ connected /\ faults' = 0) =>
        /\ \A k \in RequestKeys :
              /\ CountCalls(last'.drv, "Chart", k) =
                    (IF Listeners(k) = {} /\ Listeners(k)' # {} THEN 1 ELSE 0)
              /\ CountCalls(last'.drv, "delete", k) =
                    (IF Listeners(k) # {} /\ Listeners(k)' = {} THEN 1 ELSE 0)
        /\ DOMAIN charts' = { k \in RequestKeys : Listeners(k)' # {} }
      ]_vars

\* C3 (I2): in every reachable state, for every key the number of driver
\* charts created for it and not yet deleted is at most one.
C3_AtMostOneChartPerKey ==
    \A m \in DOMAIN driverLive : driverLive[m] <= 1

\* C4 (I3): in every reachable state a session ws is listed in
\* subscriptionClients[K] if and only if K is in clientSubscriptions[ws].
C4_IndexAgreesWithInterest ==
    \A c \in Clients \cup DOMAIN clientSubscriptions :
        \A k \in RequestKeys \cup DOMAIN subscriptionClients \cup Interest(c) :
            c \in Listeners(k) <=> k \in Interest(c)

\* C4's case: a session has just unsubscribed from a key that another session
\* still listens to.
C4_Witness ==
    /\ last.op = "unsubscribe"
    /\ last.resp = << Sent(Resp(last.ws, "unsubscribe", TRUE, "Unsubscribed successfully",
                           last.symbol, last.timeframe)) >>
    /\ Listeners(KeyOf(last.symbol, last.timeframe)) # {}
    /\ \E k \in Interest(last.ws) : Listeners(k) = {last.ws}

\* C5 (P3, I4): when a client socket has closed, the client is in no entry
\* of the index and has no interest set, Multiplexer.unsubscribe has been
\* requested for exactly the keys whose listener set the disconnect emptied,
\* and a key with another listener keeps its chart.  Stated for the runs in
\* which no driver call has failed.
C5_DisconnectCleanup ==
    [][ (last = IdleLog /\ last'.op = "close" /\ faults' = 0) =>
        LET c == last'.ws
            emptied == { k \in DOMAIN subscriptionClients : subscriptionClients[k] = {c} }
            requested == { KeyOf(last'.mux[i].symbol, last'.mux[i].timeframe) :
                              i \in { j \in 1..Len(last'.mux) :
                                         last'.mux[j].call = "unsubscribe" } }
        IN  /\ c \notin DOMAIN clientSubscriptions'
            /\ \A k \in DOMAIN subscriptionClients' : c \notin subscriptionClients'[k]
            /\ requested = emptied
            /\ \A k \in DOMAIN charts :
                  Listeners(k) \ {c} # {} => k \in DOMAIN charts'
      ]_vars

\* C6 (I4): the chart of a key subscribed from the start-up configuration
\* is still there after a client unsubscribes from the key or disconnects.
\* Stated for the runs in which no driver call has failed.
C6_PinnedKeyStays ==
    [][ (last = IdleLog /\ last'.op \in {"unsubscribe", "close"} /\ faults' = 0) =>
        \A k \in PinnedKeys : k \in DOMAIN charts => k \in DOMAIN charts'
      ]_vars

C8_CreatedIffFirstListener ==
    [][ (last = IdleLog /\ last'.op = "subscribe" /\ last'.ws # BulkHolder
         /\ config = {} /\ connected /\ faults' = 0
         /\ last'.symbol # Missing /\ last'.timeframe # Missing
         /\ KeyOf(last'.symbol, last'.timeframe) \notin Interest(last'.ws)) =>
        LET k == KeyOf(last'.symbol, last'.timeframe)
            first == Listeners(k) = {} /\ k \notin DOMAIN activeSubscriptions
        IN  /\ Len(last'.resp) = 1
            /\ last'.resp[1].type = "subscribe" /\ last'.resp[1].success
            /\ last'.resp[1].message =
                  (IF first THEN "Subscription created" ELSE "Subscribed (shared)")
            /\ first => /\ Len(last'.mux) = 1
                        /\ last'.mux[1].call = "subscribe"
                        /\ last'.mux[1].symbol = last'.symbol
                        /\ last'.mux[1].timeframe = last'.timeframe
            /\ ~first => last'.mux = << >>
      ]_vars

\* C9: an unsubscribe for a key that is not in the requesting session's
\* interest set is answered success=false "Subscription not found for this
\* client", leaves the interest sets, the index, the active subscriptions and
\* the chart map unchanged and makes no Multiplexer call.
C9_UnsubscribeNotFound ==
    [][ (last = IdleLog /\ last'.op = "unsubscribe"
         /\ last'.symbol # Missing /\ last'.timeframe # Missing
         /\ KeyOf(last'.symbol, last'.timeframe) \notin Interest(last'.ws)) =>
        /\ last'.resp = << Sent(Resp(last'.ws, "unsubscribe", FALSE,
                                "Subscription not found for this client",
                                last'.symbol, last'.timeframe)) >>
        /\ last'.mux = << >> /\ last'.drv = << >>
        /\ UNCHANGED << proc, faults, wsVars, tvVars, tasks >>
      ]_vars

\* C9's case: the key refused to the session is one another session listens
\* to, and its chart is there.
C9_Witness ==
    /\ last.op = "unsubscribe"
    /\ last.resp = << Sent(Resp(last.ws, "unsubscribe", FALSE,
                           "Subscription not found for this client",
                           last.symbol, last.timeframe)) >>
    /\ Listeners(KeyOf(last.symbol, last.timeframe)) = Clients \ {last.ws}
    /\ KeyOf(last.symbol, last.timeframe) \in DOMAIN charts

\* C10: a frame that is not JSON, a subscribe or unsubscribe without symbol
\* or timeframe, and an unknown action are each answered with exactly one
\* response, of type "error", to the client that sent it; nothing else
\* changes and no Multiplexer call is made.
C10_ProtocolErrors ==
    [][ (last = IdleLog
         /\ \/ last'.op \in {"malformed", "unknown"}
            \/ /\ last'.op \in {"subscribe", "unsubscribe"}
               /\ (last'.symbol = Missing \/ last'.timeframe = Missing)) =>
        /\ Len(last'.resp) = 1
        /\ last'.resp[1].type = "error"
        /\ last'.resp[1].to = last'.ws
        /\ last'.resp[1].success = FALSE
        /\ last'.mux = << >> /\ last'.drv = << >> /\ last'.ev = << >>
        /\ UNCHANGED << proc, faults, wsVars, tvVars, tasks >>
      ]_vars

\* C10's case: a frame that is not JSON has been answered while the session
\* holds a key whose chart exists.
C10_Witness ==
    /\ last.op = "malformed"
    /\ last.resp = << Sent(Resp(last.ws, "error", FALSE, "Invalid JSON message",
                           Missing, Missing)) >>
    /\ \E k \in Interest(last.ws) : k \in DOMAIN charts /\ k \in DOMAIN activeSubscriptions

\* the same session sending single subscribe (unsubscribe) requests for
\* pairs[i], pairs[i+1], ... in order
RECURSIVE Singles(_, _, _, _, _)
Singles(w, c, pairs, i, subscribing) ==
    IF i > Len(pairs) THEN w
    ELSE Singles(IF subscribing
                 THEN HandleSubscribe(w, c, pairs[i].symbol, pairs[i].timeframe, NoFault)
                 ELSE HandleUnsubscribe(w, c, pairs[i].symbol, pairs[i].timeframe, NoFault),
                 c, pairs, i + 1, subscribing)

\* C11: a subscribe_many (unsubscribe_many) over pairs p1..pn by a session
\* leaves the interest sets, the index, the set of upstream charts and the
\* sequence of Multiplexer calls as the same session's single subscribe
\* (unsubscribe) requests for p1..pn in order leave them.  Stated for the
\* requests handled while the Multiplexer is connected and no driver call
\* fails.
C11_BulkAsSingles ==
    \A c \in clients : \A pairs \in PairsInputs \ { << >> } : \A subscribing \in BOOLEAN :
        (Running /\ connected /\ faults = 0) =>
            LET bulk == IF subscribing
                        THEN HandleSubscribeMany(World, c, pairs, NoFault)
                        ELSE HandleUnsubscribeMany(World, c, pairs, NoFault)
                one == Singles(World, c, pairs, 1, subscribing)
            IN  /\ bulk.ws.cs = one.ws.cs
                /\ bulk.ws.sc = one.ws.sc
                /\ DOMAIN bulk.tv.charts = DOMAIN one.tv.charts
                /\ bulk.tv.mux = one.tv.mux

\* the pairs of a bulk request that have a symbol and a timeframe
RECURSIVE ValidPairs(_)
ValidPairs(pairs) ==
    IF pairs = << >> THEN << >>
    ELSE IF Head(pairs).symbol = Missing \/ Head(pairs).timeframe = Missing
    THEN ValidPairs(Tail(pairs))
    ELSE << Head(pairs) >> \o ValidPairs(Tail(pairs))

\* the results of the pairs that have a symbol and a timeframe
RECURSIVE ValidResults(_)
ValidResults(results) ==
    IF results = << >> THEN << >>
    ELSE IF Head(results).symbol = Missing \/ Head(results).timeframe = Missing
    THEN ValidResults(Tail(results))
    ELSE << Head(results) >> \o ValidResults(Tail(results))

\* C12: a bulk request with a non-empty pairs list is answered by one
\* response with success true and one result per pair, in the order of the
\* pairs; a pair without symbol or timeframe gets success false and
\* "symbol and timeframe required", changes no state, and the other pairs
\* are processed as if it were not in the list.  Stated under SpecBulk for
\* the requests of the session that sends the bulk requests.
C12_BulkResults ==
    \A c \in clients \cap {BulkHolder} : \A pairs \in PairsInputs \ { << >> } : \A subscribing \in BOOLEAN :
        \A o \in Oracles(PairKeys(pairs), PairKeys(pairs), {}) :
        Running =>
            LET Handle(ps) == IF subscribing
                              THEN HandleSubscribeMany(World, c, ps, o)
                              ELSE HandleUnsubscribeMany(World, c, ps, o)
                w == Handle(pairs)
                r == w.ws.resp[1]
                v == Handle(ValidPairs(pairs))
            IN  /\ Len(w.ws.resp) = 1
                /\ r.to = c /\ r.success
                /\ r.type = (IF subscribing THEN "subscribe_many" ELSE "unsubscribe_many")
                /\ Len(r.results) = Len(pairs)
                /\ \A i \in 1..Len(pairs) :
                      /\ r.results[i].symbol = pairs[i].symbol
                      /\ r.results[i].timeframe = pairs[i].timeframe
                      /\ (pairs[i].symbol = Missing \/ pairs[i].timeframe = Missing) =>
                            /\ ~r.results[i].success
                            /\ r.results[i].message = "symbol and timeframe required"
                /\ [w.ws EXCEPT !.resp = << >>] = [v.ws EXCEPT !.resp = << >>]
                /\ w.tv = v.tv
                /\ ValidPairs(pairs) # << >> =>
                      ValidResults(r.results) = v.ws.resp[1].results

\* C12's case: a bulk subscribe of two pairs has been answered; one of the
\* pairs was refused and the other created a chart.
C12_Witness ==
    /\ last.op = "subscribe_many"
    /\ Len(last.resp) = 1
    /\ last.resp[1].success
    /\ last.resp[1].nresults = 2
    /\ last.resp[1].nfailed = 1
    /\ Len(last.drv) = 1 /\ last.drv[1].call = "Chart"

\* C13: the subscriptions a list request returns are exactly the keys that
\* some client holds: the keys with a listener and the keys BulkHolder has
\* made active by subscribe_many.  Stated under SpecBulkHolder for the list
\* requests handled while BulkHolder holds no key by a single subscribe and
\* no driver call has failed.
C13_ListIsGlobalInterest ==
    [][ (/\ last = IdleLog /\ last'.op = "list"
         /\ faults = 0
         /\ \A k \in DOMAIN subscriptionClients : BulkHolder \notin Listeners(k)) =>
        /\ Len(last'.resp) = 1
        /\ last'.resp[1].type = "list"
        /\ { SubKey(sub) : sub \in last'.resp[1].subscriptions } =
              { k \in RequestKeys \cup DOMAIN activeSubscriptions :
                   Listeners(k) # {} \/ k \in DOMAIN activeSubscriptions }
      ]_vars

\* the bars of key k in a sequence of bars
RECURSIVE BarsOfKey(_, _)
BarsOfKey(bars, k) ==
    IF bars = << >> THEN << >>
    ELSE IF KeyOf(Head(bars).symbol, Head(bars).timeframe) = k
    THEN << Head(bars) >> \o BarsOfKey(Tail(bars), k)
    ELSE BarsOfKey(Tail(bars), k)

\* s can be obtained from t by leaving elements out
RECURSIVE IsSubsequence(_, _)
IsSubsequence(s, t) ==
    IF s = << >> THEN TRUE
    ELSE IF t = << >> THEN FALSE
    ELSE IF Head(s) = Head(t) THEN IsSubsequence(Tail(s), Tail(t))
    ELSE IsSubsequence(s, Tail(t))

\* the keys of the emitted bars
BarKeys == { KeyOf(emitted[i].symbol, emitted[i].timeframe) : i \in 1..Len(emitted) }

\* C14: for every key K and every client, the bar messages for K sent to the
\* client are a subsequence of the bars the driver emitted for K, in the
\* order of emission, however the POSTs and retries of earlier bars
\* interleave.
C14_BarsInEmissionOrder ==
    \A c \in Clients : \A k \in BarKeys :
        IsSubsequence(BarsOfKey(delivered[c], k), BarsOfKey(emitted, k))

\* C14's case: a client has received two bars of one key, the second while
\* the push of the first had failed at least once and was not finished.
C14_Witness ==
    /\ Len(emitted) >= 2
    /\ KeyOf(emitted[1].symbol, emitted[1].timeframe) = KeyOf(emitted[2].symbol, emitted[2].timeframe)
    /\ delivered["c1"] = << emitted[1], emitted[2] >>
    /\ pushes[1].attempt >= 1
    /\ pushes[1].state \in {"posting", "backoff"}

\* C15: in the step in which the driver emits a bar, the bar is sent to every
\* client whose transport is open, whatever the state of the pushes of the
\* earlier bars, and before its own POST has been answered; the steps of the
\* HTTP push (an answer, a failure, a retry) send no bar and take none back.
C15_BroadcastIndependentOfPush ==
    [][ /\ Len(emitted') = Len(emitted) + 1 =>
            LET bar == emitted'[Len(emitted')]
            IN  /\ \A c \in Clients :
                      delivered'[c] = IF c \in OpenClients
                                      THEN Append(delivered[c], bar)
                                      ELSE delivered[c]
                /\ pushes'[Len(emitted')].outcomes = << >>
                /\ \A i \in 1..Len(emitted) : pushes'[i] = pushes[i]
        /\ emitted' = emitted => delivered' = delivered
      ]_vars

\* C15's case: a bar has been sent to an open client although the push of an
\* earlier bar has failed on every attempt and was given up.
C15_Witness ==
    /\ Len(emitted) >= 2
    /\ pushes[1].state = "dropped"
    /\ pushes[2].state = "posting"
    /\ Len(delivered["c1"]) >= 1
    /\ delivered["c1"][Len(delivered["c1"])] = emitted[2]

\* C16: a push whose first two POSTs fail and whose third succeeds makes
\* exactly three POSTs, increments bars_pushed_total once and is finished: no
\* POST follows the success.  After two failures the third POST is made or
\* about to be made; bars_pushed_total counts the successful pushes.
C16_ThirdPostSucceeds ==
    /\ \A i \in 1..Len(pushes) :
          /\ pushes[i].outcomes = << FALSE, FALSE >> =>
                /\ pushes[i].state \in {"backoff", "posting"}
                /\ pushes[i].counted = 0
          /\ (Len(pushes[i].outcomes) >= 3
              /\ SubSeq(pushes[i].outcomes, 1, 3) = << FALSE, FALSE, TRUE >>) =>
                /\ pushes[i].outcomes = << FALSE, FALSE, TRUE >>
                /\ pushes[i].posts = 3
                /\ pushes[i].counted = 1
                /\ pushes[i].state = "done"
    /\ barsPushedTotal =
          Cardinality({ i \in 1..Len(pushes) : pushes[i].counted = 1 })
    /\ \A i \in 1..Len(pushes) : pushes[i].counted \in {0, 1}

\* C16's case: the third POST of a bar has succeeded after two failures.
C16_Witness ==
    \E i \in 1..Len(pushes) : pushes[i].outcomes = << FALSE, FALSE, TRUE >>

\* C17: with the default retry configuration a bar whose every POST fails is
\* dropped after exactly 1 + attempts = 4 POSTs (attempts = 3), and
\* bars_pushed_total is not incremented for it.
C17_FourPostsThenDropped ==
    \A i \in 1..Len(pushes) :
        pushes[i].state = "dropped" =>
            /\ pushes[i].posts = 1 + DefaultAttempts
            /\ pushes[i].counted = 0

\* the key of every subscription of the snapshot splits back to it: no
\* symbol of the snapshot contains "_"
CleanSnapshot(snapshot) == \A sub \in snapshot : SplitKey(SubKey(sub)) = sub

\* the key has a chart in the Multiplexer and the driver holds it
LiveChart(k) ==
    /\ k \in DOMAIN charts
    /\ charts[k] \in DOMAIN driverLive
    /\ driverLive[charts[k]] >= 1

\* C18: once a fullReconnect that started with key set S has completed and
\* no reconnect timer is pending, the Multiplexer is connected and every key
\* of S has a live chart, also when the re-open failed at first and the
\* backoff timer has retried it.  Stated under SpecReconnect, where no
\* request releases a key, for key sets without "_" in a symbol and for the
\* runs whose only failure, if any, is the failed re-open.
C18_ReconnectRestoresKeys ==
    (/\ proc = "running"
     /\ snapshotKeys # NoSnapshot
     /\ \A k \in snapshotKeys : SubKey(SplitKey(k)) = k
     /\ tasks = {}
     /\ ~reconnectPending
     /\ (faults = 0 \/ last.op = "reconnect_timer")) =>
        /\ connected
        /\ \A k \in snapshotKeys : LiveChart(k)

\* C19: fullReconnect returns true only if afterwards the Multiplexer is
\* connected and every key of the snapshot has a live chart; when the
\* re-open or the re-subscription of a snapshot key has failed it returns
\* false.  Stated for snapshots without "_" in a symbol.
C19_TrueOnlyOnSuccess ==
    [][ \A task \in tasks :
          (/\ last'.op = "full_reconnect_resume"
           /\ task \notin tasks'
           /\ CleanSnapshot(task.snapshot)) =>
              LET restored == /\ connected'
                              /\ \A sub \in task.snapshot :
                                    /\ SubKey(sub) \in DOMAIN charts'
                                    /\ charts'[SubKey(sub)] \in DOMAIN driverLive'
                  returned(name) == \E i \in 1..Len(last'.ev) : last'.ev[i].name = name
              IN  /\ returned("fullReconnect_true") => restored
                  /\ ~restored => returned("fullReconnect_false")
      ]_vars

\* the subscribed keys whose last bar or subscription time is older, at
\* `time`, than the interval of their timeframe times the multiplier
StaleKeys(time) ==
    { k \in DOMAIN charts :
         /\ k \in DOMAIN lastBarTimestamps
         /\ TimeframeToMs(charts[k].timeframe) # << >>
         /\ time - lastBarTimestamps[k] >
               TimeframeToMs(charts[k].timeframe)[1] * healthConfig.staleThresholdMultiplier }

\* the keys a waiting scan is recovering or has still to recover
ScanKeys(scan) == { SubKey(scan.sub) } \cup { SubKey(scan.rest[i]) : i \in 1..Len(scan.rest) }

\* C20: with auto-recovery enabled, a scan tick that finds at least one and
\* fewer than fullReconnectThreshold subscribed keys older than
\* timeframeMs x staleThresholdMultiplier counts exactly those keys stale and
\* recovers them in that scan: it unsubscribes the first of them (the driver
\* sees delete) and increments recovery_attempts_total, and when the 1 s
\* timer fires it subscribes the key again (the driver sees a new chart); a
\* tick makes no Multiplexer call for a key that is not stale.  Stated for
\* the ticks with no other scan in progress, no key at its recovery limit
\* and no failing driver call.
C20_StaleKeysRecovered ==
    [][ /\ (/\ last = IdleLog /\ last'.op = "health_scan"
            /\ healthConfig.autoRecoveryEnabled
            /\ scans = {} /\ connected /\ faults' = 0
            /\ \A k \in DOMAIN recoveryAttempts : recoveryAttempts[k] < healthConfig.maxRecoveryAttempts) =>
              LET stale == StaleKeys(now')
              IN  /\ (stale # {} /\ Cardinality(stale) < healthConfig.fullReconnectThreshold) =>
                        \E scan \in scans' :
                           /\ scan.kind = "recovery"
                           /\ ScanKeys(scan) = stale
                           /\ last'.mux = << MuxCall("unsubscribe", scan.sub.symbol,
                                                      scan.sub.timeframe, "true") >>
                           /\ last'.drv = << DrvCall("delete", scan.sub) >>
                           /\ recoveryAttemptsTotal' = recoveryAttemptsTotal + 1
                  /\ \A i \in 1..Len(last'.mux) :
                        KeyOf(last'.mux[i].symbol, last'.mux[i].timeframe) \in stale
                  /\ stale = {} => scans' = {} /\ recoveryAttemptsTotal' = recoveryAttemptsTotal
        /\ \A scan \in scans :
              (/\ last = IdleLog /\ last'.op = "health_recovery"
               /\ scan \notin scans' /\ connected /\ faults' = 0) =>
                  /\ Len(last'.mux) >= 1
                  /\ last'.mux[1] = MuxCall("subscribe", scan.sub.symbol,
                                            scan.sub.timeframe, "true")
                  /\ Len(last'.drv) >= 1
                  /\ last'.drv[1] = DrvCall("Chart", scan.sub)
      ]_vars

\* C21: any two fullReconnect calls started by health scans are separated by
\* more than fullReconnectCooldownMs, whatever the scans that started while
\* an earlier scan was still waiting on its timer.
C21_OncePerCooldown ==
    \A i, j \in 1..Len(fullReconnectCalls) :
        i < j => fullReconnectCalls[j] - fullReconnectCalls[i] >
                     healthConfig.fullReconnectCooldownMs

\* two scans have called fullReconnect
C21_Witness == Len(fullReconnectCalls) >= 2

\* the recoveries attemptRecovery has started for key k
Recovered(k) == IF k \in DOMAIN recoveriesOf THEN recoveriesOf[k] ELSE 0

\* the driver has emitted no bar for key k
NoBarFor(k) == \A i \in 1..Len(emitted) : KeyOf(emitted[i].symbol, emitted[i].timeframe) # k

\* C22: for a key K that receives no bar, once maxRecoveryAttempts
\* recoveries have been started for K no step of a health scan starts another
\* one; a scan tick that finds K, and only K, stale then emits
\* max_recovery_attempts for K and makes no Multiplexer call.
C22_RecoveryLimit ==
    [][ \A k \in DOMAIN recoveriesOf :
          (/\ last = IdleLog /\ last'.op \in {"health_scan", "health_recovery"}
           /\ NoBarFor(k)
           /\ Recovered(k) >= healthConfig.maxRecoveryAttempts) =>
              /\ recoveriesOf'[k] = recoveriesOf[k]
              /\ (last'.op = "health_scan" /\ scans = {} /\ StaleKeys(now') = {k}) =>
                    /\ last'.mux = << >>
                    /\ \E i \in 1..Len(last'.ev) :
                          /\ last'.ev[i].name = "max_recovery_attempts"
                          /\ SubKey(last'.ev[i].sub) = k
      ]_vars

\* the step emitted the event `name`
Emits(log, name) == \E i \in 1..Len(log.ev) : log.ev[i].name = name

\* C23: the backoff timer fires only while the count of failed connects is
\* at most 10.  A failed attempt counts one more; up to the 10th count a new
\* timer is armed, and at the 11th max_reconnect_attempts is emitted, no
\* timer is armed and the process keeps running.  A successful connect, by
\* the timer or by any other caller, sets the counter to 0.
C23_ReconnectCap ==
    [][ /\ (last = IdleLog /\ last'.op = "reconnect_timer") =>
              /\ reconnectAttempts <= maxReconnectAttempts
              /\ proc' = "running"
              /\ IF Emits(last', "connect")
                 THEN ~reconnectPending'
                 ELSE /\ reconnectAttempts' = reconnectAttempts + 1
                      /\ reconnectPending' <=> reconnectAttempts' <= maxReconnectAttempts
                      /\ Emits(last', "max_reconnect_attempts") <=> ~reconnectPending'
        /\ (last = IdleLog /\ Emits(last', "connect")) => reconnectAttempts' = 0
        /\ (last = IdleLog /\ Emits(last', "max_reconnect_attempts")) =>
              /\ ~reconnectPending'
              /\ proc' = "running"
      ]_vars

\* the 10th attempt has failed: the budget is exhausted
C23_Witness ==
    /\ last.op = "reconnect_timer"
    /\ Emits(last, "max_reconnect_attempts")
    /\ reconnectAttempts = maxReconnectAttempts + 1
    /\ ~reconnectPending
    /\ proc = "running"

\* the normal form the specification gives for each written timeframe
NormalForm(timeframe) ==
    CASE timeframe = << "1", "m" >> -> << "1" >>
      [] timeframe = << "5", "m" >> -> << "5" >>
      [] timeframe = << "1", "h" >> -> << "6", "0" >>
      [] timeframe = << "4", "h" >> -> << "2", "4", "0" >>
      [] timeframe \in { << "1", "d" >>, << "d" >>, << "D" >> } -> << "D" >>
      [] timeframe \in { << "1", "w" >>, << "w" >> } -> << "W" >>
      [] timeframe \in { << "1", "M" >>, << "M" >> } -> << "M" >>
      [] timeframe = << "6", "0" >> -> << "6", "0" >>

\* C24: the loading of the configuration maps every written timeframe to the
\* normal form of the table ("1m" to "1", "5m" to "5", "1h" to "60", "4h" to
\* "240", "1d" and "d" to "D", "1w" and "w" to "W", "1M" and "M" to "M", "60"
\* and "D" to themselves), and normalizing the result again changes nothing.
C24_Normalization ==
    [][ (proc = "loading" /\ proc' # "loading") =>
          /\ config' = { Sub(raw.symbol, NormalForm(raw.timeframe)) : raw \in config }
          /\ \A sub \in config' : NormalizeTimeframe(sub) = sub
          /\ \A raw \in config :
                NormalizeTimeframe(NormalizeTimeframe(raw)) = NormalizeTimeframe(raw)
      ]_vars

\* the configuration was loaded from "4h" and the service subscribed it as "240"
C24_Witness ==
    /\ proc = "running"
    /\ config = { Sub(<< "B" >>, << "2", "4", "0" >>) }
    /\ KeyOf(<< "B" >>, << "2", "4", "0" >>) \in DOMAIN charts

\* the key is the key of a subscription in normal form
NormalKey(k) == SubKey(NormalizeTimeframe(SplitKey(k))) = k

\* the keys the WebSocket server, the Multiplexer and the Health Monitor hold
HeldKeys ==
    DOMAIN charts \cup DOMAIN activeSubscriptions \cup DOMAIN subscriptionClients
        \cup DOMAIN lastBarTimestamps \cup UNION { Interest(c) : c \in clients }

\* C25: every key held by the WebSocket server, the Multiplexer and the
\* Health Monitor is in normal form, whether it came from the configuration
\* or from a client request, so that two requests whose timeframes have the
\* same normal form ("5m" and "5") share one interest entry and one chart.
\* Stated for symbols without "_" and for the runs in which no driver call
\* has failed.
C25_NormalizedKeys ==
    faults = 0 =>
        /\ \A k \in HeldKeys : NormalKey(k)
        /\ \A k1, k2 \in DOMAIN charts :
              NormalizeTimeframe(charts[k1]) = NormalizeTimeframe(charts[k2]) => k1 = k2
        /\ \A k1, k2 \in DOMAIN subscriptionClients :
              NormalizeTimeframe(SplitKey(k1)) = NormalizeTimeframe(SplitKey(k2)) => k1 = k2

\* C26: for every key, across every step in which the Multiplexer does not
\* emit 'unsubscribed' for it, the last-bar timestamp the Health Monitor
\* holds for the key does not decrease: not by a bar, by the initialisation
\* of a scan, by the reset at 'connect', by a recovery or by a full reconnect.
C26_TimestampMonotonic ==
    [][ \A k \in DOMAIN lastBarTimestamps \cap DOMAIN lastBarTimestamps' :
          CountEvents(last'.ev, "unsubscribed", k) = 0 =>
              lastBarTimestamps'[k] >= lastBarTimestamps[k]
      ]_vars

\* a key's timestamp was set by a bar after the first scan, and a scan has
\* reconnected in full
C26_Witness ==
    /\ scans = {}
    /\ Len(fullReconnectCalls) >= 1
    /\ \E k \in DOMAIN lastBarTimestamps :
          /\ ~NoBarFor(k)
          /\ lastBarTimestamps[k] > Epoch

\* C27: a Multiplexer.subscribe that does not succeed returns false, emits
\* subscription_error for its key and leaves no record of the key, whether
\* the driver was not connected or a wiring step threw; it does not raise,
\* so the process keeps running after a client's subscribe request, also
\* when the request arrives while the driver is disconnected.  Stated for
\* the calls made for a client's subscribe request.
C27_SubscribeFailsQuietly ==
    /\ \A i \in 1..Len(last.mux) :
          (/\ last.op = "subscribe"
           /\ last.mux[i].call = "subscribe"
           /\ last.mux[i].result # "true") =>
              LET key == KeyOf(last.mux[i].symbol, last.mux[i].timeframe)
              IN  /\ last.mux[i].result = "false"
                  /\ CountEvents(last.ev, "subscription_error", key) >= 1
                  /\ key \notin DOMAIN charts
    /\ last.op = "subscribe" => proc = "running"

\* C28: a Multiplexer.unsubscribe of a key that has a record (the call
\* reaches the teardown of the chart handle) returns true, emits
\* 'unsubscribed' and leaves the key out of the map, also when the teardown
\* throws.  Stated for the calls made for a client's unsubscribe request.
C28_UnsubscribeAlwaysRemoves ==
    \A i \in 1..Len(last.mux) :
        LET key == KeyOf(last.mux[i].symbol, last.mux[i].timeframe)
        IN  (/\ last.op = "unsubscribe"
             /\ last.mux[i].call = "unsubscribe"
             /\ CountCalls(last.drv, "delete", key) + CountCalls(last.drv, "deleteThrows", key) >= 1) =>
                /\ last.mux[i].result = "true"
                /\ CountEvents(last.ev, "unsubscribed", key) = 1
                /\ key \notin DOMAIN charts

C29_WitnessAbsent ==
    /\ last.op = "unsubscribe"
    /\ last.mux = << MuxCall("unsubscribe", last.symbol, last.timeframe, "false") >>
    /\ last.drv = << >>

\* the keys of the Multiplexer calls `call` in the sequence mux
CalledKeys(mux, call) ==
    { KeyOf(mux[i].symbol, mux[i].timeframe) : i \in { j \in 1..Len(mux) : mux[j].call = call } }

\* C30: the updateSubscriptions(desired) of a fullReconnect makes every
\* unsubscribe before its first subscribe, unsubscribes exactly the keys of
\* current \ desired, subscribes only keys of desired \ current, all of them
\* when the driver is connected, and when the driver is connected and no
\* driver call fails the subscribed keys afterwards are the desired keys.
C30_UpdateSubscriptions ==
    [][ \A task \in tasks :
          (/\ last'.op = "full_reconnect_resume"
           /\ task \notin tasks'
           /\ task.snapshot # {}) =>
              LET desired == { SubKey(sub) : sub \in task.snapshot }
                  current == DOMAIN charts
                  mux == last'.mux
              IN  /\ \A i, j \in 1..Len(mux) :
                        (mux[i].call = "unsubscribe" /\ mux[j].call = "subscribe") => i < j
                  /\ CalledKeys(mux, "unsubscribe") = current \ desired
                  /\ CalledKeys(mux, "subscribe") \subseteq desired \ current
                  /\ connected' => CalledKeys(mux, "subscribe") = desired \ current
                  /\ (connected' /\ faults' = faults) => DOMAIN charts' = desired
      ]_vars

\* the steps that call connect()
ConnectOps == {"start", "reconnect_timer", "full_reconnect_resume"}

StartedIn(started, k) == IF k \in DOMAIN started THEN started[k] ELSE 0

\* attemptRecovery has been called for key k in the step, or a waiting scan
\* of the next state has it still to call
Attempted(k, started, startedNext, log, waiting) ==
    \/ StartedIn(startedNext, k) = StartedIn(started, k) + 1
    \/ \E i \in 1..Len(log.ev) :
          log.ev[i].name = "max_recovery_attempts" /\ SubKey(log.ev[i].sub) = k
    \/ \E scan \in waiting : scan.kind = "recovery" /\ k \in ScanKeys(scan)

\* C32: a scan that calls fullReconnect starts no individual recovery, in
\* the tick or when its reconnect resumes: no recovery is counted, the tick
\* makes no unsubscribe or subscribe call and leaves no recovery waiting.  A
\* tick that counts at least fullReconnectThreshold stale keys while the
\* cooldown has not elapsed calls no fullReconnect and attemptRecovery is
\* called for every stale key, in the tick or after the 1 s timers of the
\* scan.  Stale keys are the keys the scan counts stale.
C32_FullOrIndividual ==
    [][ /\ (last'.op = "health_scan" /\ Len(fullReconnectCalls') > Len(fullReconnectCalls)) =>
              /\ recoveriesOf' = recoveriesOf
              /\ recoveryAttemptsTotal' = recoveryAttemptsTotal
              /\ last'.mux = << >>
              /\ \A scan \in scans' \ scans : scan.kind = "full"
        /\ last'.op = "health_full_reconnect" =>
              /\ recoveriesOf' = recoveriesOf
              /\ recoveryAttemptsTotal' = recoveryAttemptsTotal
              /\ scans' \subseteq scans
        /\ (/\ last'.op = "health_scan"
            /\ healthConfig.autoRecoveryEnabled
            /\ Cardinality(StaleKeys(now')) >= healthConfig.fullReconnectThreshold
            /\ now' - lastFullReconnectTime <= healthConfig.fullReconnectCooldownMs) =>
              /\ fullReconnectCalls' = fullReconnectCalls
              /\ \A k \in StaleKeys(now') :
                    Attempted(k, recoveriesOf, recoveriesOf', last', scans')
        /\ \A scan \in scans :
              (last'.op = "health_recovery" /\ scan \notin scans') =>
                  /\ fullReconnectCalls' = fullReconnectCalls
                  /\ \A i \in 1..Len(scan.rest) :
                        Attempted(SubKey(scan.rest[i]), recoveriesOf, recoveriesOf', last', scans')
      ]_vars

\* a tick within the cooldown of an earlier full reconnect has found enough
\* stale keys for another and recovers them one by one
C32_Witness ==
    /\ last.op = "health_scan"
    /\ Len(fullReconnectCalls) >= 1
    /\ now - lastFullReconnectTime <= healthConfig.fullReconnectCooldownMs
    /\ \E scan \in scans :
          /\ scan.kind = "recovery"
          /\ scan.started = now
          /\ Cardinality(ScanKeys(scan)) >= healthConfig.fullReconnectThreshold

\* the keys of the start-up subscriptions of the recovery specification:
\* main.ts subscribes them for the life of the process
RecoveryKeys == { SubKey(sub) : sub \in UNION RecoverySubscriptions }

\* the fullReconnect of a scan, started with a key set that holds k, has
\* just returned false, and no other scan waits on a timer
FullReconnectFailed(k) ==
    /\ last.op = "health_full_reconnect"
    /\ scans = {}
    /\ Emits(last, "full_reconnect_failure")
    /\ snapshotKeys # NoSnapshot
    /\ k \in snapshotKeys

\* C33: when the fullReconnect of a scan, started with a key set S, returns
\* false, every key of S, a start-up subscription that keeps its interest,
\* eventually has a live chart again: the driver becomes connectable, the
\* timers fire, and the monitor attempts again.
C33_FailedReconnectHeals ==
    \A k \in RecoveryKeys : FullReconnectFailed(k) ~> LiveChart(k)

\* the fullReconnect calls that are between their snapshot and their
\* re-subscription
ReconnectsInProgress == { task \in tasks : task.type = "fullReconnect" }

\* C34: at most one fullReconnect is between its snapshot and its
\* re-subscription at any time, and no step starts a fullReconnect or lets
\* the backoff timer re-open the driver while one is.
C34_OneReconnectAtATime ==
    [][ /\ Cardinality(ReconnectsInProgress') <= 1
        /\ ReconnectsInProgress # {} =>
              last'.op \notin {"full_reconnect_start", "reconnect_timer"}
      ]_vars

\* C35: a 'bar' for key K is emitted only between the 'subscribed' event
\* for K and the next 'unsubscribed' event for K or close, that is, while K
\* has a record in the map (subscribe emits 'subscribed' with the record's
\* insertion, unsubscribe emits 'unsubscribed' with its removal), also when
\* the update callback of a chart runs after the chart's teardown.
C35_BarsWhileSubscribed ==
    [][ Len(emitted') = Len(emitted) + 1 =>
          KeyOf(emitted'[Len(emitted')].symbol, emitted'[Len(emitted')].timeframe)
              \in DOMAIN charts
      ]_vars

\* C36: the listeners of a lifecycle event find the mutation it reports:
\* at 'subscribed'(K) getSubscriptions() holds the pair of K, at
\* 'unsubscribed'(K) it does not, at 'connect' isConnected() is true, and at
\* 'disconnect' getSubscriptions() is empty and isConnected() is false.
C36_EventsAfterMutation ==
    \A i \in 1..Len(last.seen) :
        LET e == last.seen[i]
        IN  /\ e.name = "subscribed" => e.sub \in e.subscriptions
            /\ e.name = "unsubscribed" => e.sub \notin e.subscriptions
            /\ e.name = "connect" => e.isConnected
            /\ e.name = "disconnect" => e.subscriptions = {} /\ ~e.isConnected

C38_StopDetachesOwnOnly ==
    [][/\ (checkTimer /\ ~checkTimer') =>
            /\ \A e \in DOMAIN tvListeners : "health" \notin tvListeners'[e]
            /\ \A e \in DOMAIN tvListeners :
                  "main" \in tvListeners[e] => "main" \in tvListeners'[e]
       /\ (~checkTimer /\ Len(emitted') = Len(emitted) + 1) =>
            /\ Len(pushes') = Len(pushes) + 1
            /\ \A c \in OpenClients :
                  delivered'[c] = Append(delivered[c], emitted'[Len(emitted')])
       /\ (last'.op = "health_scan" /\ last.op # "health_scan") => checkTimer
      ]_vars

\* C39: an individual recovery never resurrects a key without interest: when
\* the 1 s timer of the recovery of K fires and no client is subscribed to
\* K any more, no chart exists for K once the recovery has completed.  No
\* driver call has failed, so the chart the recovery started with was there
\* for a client and the interest was lost during the delay.
C39_NoResurrection ==
    [][\A scan \in scans :
          (/\ scan.kind = "recovery"
           /\ faults' = 0
           /\ scan \notin scans'
           /\ last'.op = "health_recovery"
           /\ SubKey(scan.sub) \notin PinnedKeys
           /\ Listeners(SubKey(scan.sub)) = {})
          => SubKey(scan.sub) \notin DOMAIN charts'
      ]_vars

\* C40: getSubscriptions() returns exactly the (symbol, timeframe) pairs of
\* the successful subscribe calls that are still live, whatever characters
\* the symbol contains.
C40_GetSubscriptionsExact ==
    GetSubscriptions(Tv) = { charts[k] : k \in DOMAIN charts }

====
